---- MODULE Spec2Model ----
(***************************************************************************)
(* PREMONITOR: the per-cycle monitoring and fusion orchestrator, the       *)
(* security monitor (motion cooldown, tamper rate, activity log) and the   *)
(* single-equipment hardened main loop.                                    *)
(*                                                                         *)
(* Units.  Python floats are modelled by scaled integers:                  *)
(*   time             seconds (datetime.now(), counted from Monday 00:00)  *)
(*   temperature      tenths of a degree Celsius (5.0 -> 50, 75.0 -> 750)  *)
(*   vibration        tenths of a G       (2.0 G  -> 20, 0.5 G -> 5)       *)
(*   current          tenths of an Ampere (5.0 A  -> 50)                   *)
(*   co2              tenths of a percent (4.5 %  -> 45)                   *)
(*   confidence       hundredths          (0.85   -> 85)                   *)
(*   reconstr. error  thousandths         (0.045  -> 45)                   *)
(* Python's None is the empty tuple, a present value v is <<v>>.           *)
(***************************************************************************)
EXTENDS Integers, Sequences, FiniteSets, TLC

VARIABLES
    now,                 \* datetime.now() / time.time(), in seconds
    last_motion_time,    \* MotionDetector.last_motion_time (None or <<t>>)
    motion_active,       \* MotionDetector.motion_active
    baseline_readings,   \* TamperDetector.baseline_readings: id -> record
    activity_log,        \* the JSON-lines file ActivityLogger appends to
    intrusion_alerts,    \* calls of send_intrusion_alert, in order
    last_call,           \* what the latest monitor_security call did
    equipment_lstm_buffers, \* id -> list of feature vectors
    equipment_states,    \* id -> last reading, last inference, timestamp
    iteration_count,     \* main_loop: the cycle counter
    loop_start,          \* main_loop: time.time() at the top of the cycle
    pc,                  \* main_loop: "top", "equipment", "sleep" or "crashed"
    idx,                 \* main_loop: position in equipment_list
    cycle_trace,         \* the monitor_equipment calls of the current cycle
    failed_before,       \* the ids whose pipeline has raised so far
    pushed,              \* id -> every feature vector appended so far
    cycle,               \* what the latest monitor_equipment call did
    shutdown_requested,  \* premonitor_main_hardened: the shutdown flag
    cycle_count,         \* premonitor_main_hardened: main()'s cycle counter
    hardened,            \* what the latest cycle of the hardened main() did
    in_flight,           \* the channel send the main thread is inside, if any
    call,                \* the latest direct call of a function: arguments, result
    retry                \* a call through retry_on_failure: attempts and sleeps

security_vars == <<last_motion_time, motion_active, baseline_readings,
                   activity_log, intrusion_alerts, last_call>>
pipeline_vars == <<equipment_lstm_buffers, equipment_states, pushed, cycle>>
loop_vars == <<iteration_count, loop_start, pc, idx, cycle_trace, failed_before>>

hardened_vars == <<shutdown_requested, cycle_count, hardened>>

call_vars == <<in_flight, call, retry>>

vars == <<now, security_vars, pipeline_vars, loop_vars, hardened_vars, call_vars>>

None == <<>>
Some(v) == <<v>>
Val(o) == o[1]
EmptyMap == [k \in {} |-> 0]

(***************************************************************************)
(* Bounds of the model.                                                    *)
(***************************************************************************)
MaxMotionCalls == 3
MaxMotionElapsed == 360
MaxTamperCalls == 2
MaxTamperElapsed == 660

(***************************************************************************)
(* SECURITY_CONFIG                                                         *)
(***************************************************************************)
motion_detection_enabled == TRUE
cooldown_seconds == 300
tamper_detection_enabled == TRUE
tamper_vibration_threshold == 20
temperature_change_rate == 50
activity_logging_enabled == TRUE
log_all_access == TRUE
business_start == 8 * 3600
business_end == 18 * 3600
weekdays_only == TRUE

(***************************************************************************)
(* EQUIPMENT_REGISTRY: the instances bound to this controller.             *)
(***************************************************************************)
Fridge ==
    [id |-> "fridge_lab_a_01", type |-> "fridge", name |-> "Main Lab Fridge A1",
     sensors |-> {"thermal_camera", "microphone", "gas_sensor", "temperature"},
     alert_channels |-> <<"discord", "email">>]

Centrifuge ==
    [id |-> "centrifuge_01", type |-> "centrifuge", name |-> "Benchtop Centrifuge #1",
     sensors |-> {"microphone", "vibration"},
     alert_channels |-> <<"discord", "email">>]

equipment_list == <<Fridge, Centrifuge>>

EquipmentIds == {equipment_list[i].id : i \in 1..Len(equipment_list)}

Has(sensors, k) == k \in DOMAIN sensors

(***************************************************************************)
(* is_after_hours(): a function of the wall clock alone.                   *)
(***************************************************************************)
(* a variant of is_after_hours_in in which the end of the window is
   already after hours; C27 must tell it from is_after_hours_in *)
is_after_hours_end_excluded(config, t) ==
    LET weekday == (t \div 86400) % 7
        current_time == t % 86400
    IN  IF config.weekdays_only /\ weekday >= 5
        THEN TRUE
        ELSE ~(config.start <= current_time /\ current_time < config.end)

(* is_after_hours() under the "business_hours" entry config, at time t *)
is_after_hours_in(config, t) ==
    LET weekday == (t \div 86400) % 7
        current_time == t % 86400
    IN  IF config.weekdays_only /\ weekday >= 5
        THEN TRUE
        ELSE ~(config.start <= current_time /\ current_time <= config.end)

is_after_hours(t) ==
    is_after_hours_in([start |-> business_start, end |-> business_end,
                       weekdays_only |-> weekdays_only], t)

(***************************************************************************)
(* MotionDetector.detect_motion: motion is the level read from the PIR     *)
(* sensor; the result carries the return value and the detector's fields.  *)
(***************************************************************************)
detect_motion(motion, lmt, active, t) ==
    IF ~motion_detection_enabled
    THEN [ret |-> FALSE, last_motion_time |-> lmt, motion_active |-> active]
    ELSE IF motion /\ ~active
    THEN [ret |-> TRUE, last_motion_time |-> Some(t), motion_active |-> TRUE]
    ELSE IF ~motion /\ active
    THEN [ret |-> motion, last_motion_time |-> lmt, motion_active |-> FALSE]
    ELSE [ret |-> motion, last_motion_time |-> lmt, motion_active |-> active]

(* MotionDetector.is_cooldown_active *)
is_cooldown_active(lmt, t) ==
    IF lmt = None THEN FALSE ELSE (t - Val(lmt)) < cooldown_seconds

Abs(x) == IF x < 0 THEN -x ELSE x

(* a variant of check_tamper whose rate test is >= where the code has >;
   C18 must tell it from check_tamper *)
check_tamper_at_ceiling(equipment_id, sensors, baseline, t) ==
    LET vib_tamper ==
            /\ Has(sensors, "vibration")
            /\ sensors["vibration"] >= tamper_vibration_threshold
        has_prev ==
            /\ equipment_id \in DOMAIN baseline
            /\ Has(sensors, "temperature")
            /\ baseline[equipment_id].temperature # None
            /\ baseline[equipment_id].timestamp # None
        seconds == t - Val(baseline[equipment_id].timestamp)
        change == Abs(sensors["temperature"] - Val(baseline[equipment_id].temperature))
        rate_tamper ==
            /\ has_prev
            /\ seconds > 0
            /\ change * 60 >= temperature_change_rate * seconds
        updated ==
            [e \in DOMAIN baseline \cup {equipment_id} |->
                IF e = equipment_id
                THEN [temperature |-> IF Has(sensors, "temperature")
                                      THEN Some(sensors["temperature"]) ELSE None,
                      timestamp |-> Some(t)]
                ELSE baseline[e]]
    IN  IF ~tamper_detection_enabled
        THEN [result |-> None, baseline |-> baseline]
        ELSE IF vib_tamper
        THEN [result |-> Some([type |-> "physical_tampering",
                               indicator |-> "abnormal_vibration",
                               value |-> sensors["vibration"]]),
              baseline |-> baseline]
        ELSE IF rate_tamper
        THEN [result |-> Some([type |-> "thermal_tampering",
                               indicator |-> "rapid_temperature_change",
                               value |-> change]),
              baseline |-> baseline]
        ELSE [result |-> None, baseline |-> updated]

(***************************************************************************)
(* TamperDetector.check_tamper: the result (None or the tamper record) and *)
(* the baseline table after the call.  The rate test                       *)
(*   abs(cur - prev) / (seconds / 60.0) > max_rate                         *)
(* is, for seconds > 0, abs(cur - prev) * 60 > max_rate * seconds.         *)
(***************************************************************************)
check_tamper(equipment_id, sensors, baseline, t) ==
    LET vib_tamper ==
            /\ Has(sensors, "vibration")
            /\ sensors["vibration"] >= tamper_vibration_threshold
        has_prev ==
            /\ equipment_id \in DOMAIN baseline
            /\ Has(sensors, "temperature")
            /\ baseline[equipment_id].temperature # None
            /\ baseline[equipment_id].timestamp # None
        seconds == t - Val(baseline[equipment_id].timestamp)
        change == Abs(sensors["temperature"] - Val(baseline[equipment_id].temperature))
        rate_tamper ==
            /\ has_prev
            /\ seconds > 0
            /\ change * 60 > temperature_change_rate * seconds
        updated ==
            [e \in DOMAIN baseline \cup {equipment_id} |->
                IF e = equipment_id
                THEN [temperature |-> IF Has(sensors, "temperature")
                                      THEN Some(sensors["temperature"]) ELSE None,
                      timestamp |-> Some(t)]
                ELSE baseline[e]]
    IN  IF ~tamper_detection_enabled
        THEN [result |-> None, baseline |-> baseline]
        ELSE IF vib_tamper
        THEN [result |-> Some([type |-> "physical_tampering",
                               indicator |-> "abnormal_vibration",
                               value |-> sensors["vibration"]]),
              baseline |-> baseline]
        ELSE IF rate_tamper
        THEN [result |-> Some([type |-> "thermal_tampering",
                               indicator |-> "rapid_temperature_change",
                               value |-> change]),
              baseline |-> baseline]
        ELSE [result |-> None, baseline |-> updated]

(***************************************************************************)
(* ActivityLogger.log_activity: the log after the call.                    *)
(***************************************************************************)
(* a variant of log_activity that opens the file for writing ('w' for
   'a'); C25 must tell it from log_activity *)
log_activity_truncating(log, event_type, equipment_id, details, t) ==
    IF ~activity_logging_enabled
    THEN log
    ELSE <<[timestamp |-> t, event_type |-> event_type,
            equipment_id |-> equipment_id, details |-> details,
            after_hours |-> is_after_hours(t)]>>

log_activity(log, event_type, equipment_id, details, t) ==
    IF ~activity_logging_enabled
    THEN log
    ELSE Append(log, [timestamp |-> t, event_type |-> event_type,
                      equipment_id |-> equipment_id, details |-> details,
                      after_hours |-> is_after_hours(t)])

(* log_activity with the outcome of the file write: an exception of open,
   json.dump or write is logged and the file stays as it was *)
log_activity_written(log, event_type, equipment_id, details, t, written) ==
    IF written THEN log_activity(log, event_type, equipment_id, details, t) ELSE log

(* ActivityLogger.get_recent_activity: the entries of the last hours *)
get_recent_activity(log, hours, t) ==
    SelectSeq(log, LAMBDA entry : entry.timestamp >= t - hours * 3600)

(* send_intrusion_alert: the alert handed to the channels. *)
send_intrusion_alert(alerts, equipment_id, alert_type, t) ==
    Append(alerts, [equipment_id |-> equipment_id, alert_type |-> alert_type,
                    time |-> t, after_hours |-> is_after_hours(t)])

(* a variant of motion_checked that looks for motion after hours only;
   C26 must tell it from motion_checked *)
motion_checked_after_hours_only(after_hours) == after_hours

(* monitor_security: if after_hours or SECURITY_CONFIG["motion_detection"]["enabled"] *)
motion_checked(after_hours) == after_hours \/ motion_detection_enabled

(***************************************************************************)
(* monitor_security(equipment, readings): the security state after one     *)
(* call, with motion the level the PIR sensor reads during the call.       *)
(***************************************************************************)
monitor_security(st, equipment, sensors, motion, t) ==
    LET after_hours == is_after_hours(t)
        checks_motion == motion_checked(after_hours)
        dm == IF checks_motion
              THEN detect_motion(motion, st.last_motion_time, st.motion_active, t)
              ELSE [ret |-> FALSE, last_motion_time |-> st.last_motion_time,
                    motion_active |-> st.motion_active]
        motion_alert ==
            /\ checks_motion
            /\ dm.ret
            /\ ~is_cooldown_active(dm.last_motion_time, t)
        log1 == IF motion_alert
                THEN log_activity(st.activity_log, "motion_detected", equipment.id,
                                  [after_hours |-> after_hours,
                                   thermal_data_available |-> Has(sensors, "thermal")], t)
                ELSE st.activity_log
        alerts1 == IF motion_alert
                   THEN send_intrusion_alert(st.intrusion_alerts, equipment.id,
                                             "unauthorized_motion", t)
                   ELSE st.intrusion_alerts
        ct == check_tamper(equipment.id, sensors, st.baseline_readings, t)
        log2 == IF ct.result # None
                THEN log_activity(log1, "tamper_detected", equipment.id, Val(ct.result), t)
                ELSE log1
        alerts2 == IF ct.result # None
                   THEN send_intrusion_alert(alerts1, equipment.id, "equipment_tampering", t)
                   ELSE alerts1
        log3 == IF log_all_access
                THEN log_activity(log2, "routine_monitoring", equipment.id,
                                  [sensors_read |-> DOMAIN sensors,
                                   after_hours |-> after_hours], t)
                ELSE log2
    IN  [last_motion_time |-> dm.last_motion_time,
         motion_active |-> dm.motion_active,
         baseline_readings |-> ct.baseline,
         activity_log |-> log3,
         intrusion_alerts |-> alerts2,
         last_call |-> Some([equipment_id |-> equipment.id, time |-> t,
                             motion |-> motion,
                             new_detection |-> checks_motion /\ motion /\ ~st.motion_active,
                             motion_alert |-> motion_alert,
                             alerts_before |-> st.intrusion_alerts,
                             sensors |-> sensors,
                             tamper |-> ct.result])]

SecurityState ==
    [last_motion_time |-> last_motion_time, motion_active |-> motion_active,
     baseline_readings |-> baseline_readings, activity_log |-> activity_log,
     intrusion_alerts |-> intrusion_alerts]

(***************************************************************************)
(* config.py and EQUIPMENT_THRESHOLDS                                      *)
(***************************************************************************)
THERMAL_CRITICAL_THRESHOLD_C == 750
GAS_ANALOG_THRESHOLD == 600
SENSOR_READ_INTERVAL == 30
LSTM_WINDOW == 50

EQUIPMENT_THRESHOLDS ==
    [fridge |->
        [thermal_anomaly_confidence |-> 85, acoustic_anomaly_confidence |-> 85,
         lstm_reconstruction_threshold |-> 45, fusion_correlation_confidence |-> 60,
         gas_analog_threshold |-> 300, temperature_range |-> <<20, 80>>],
     freezer_ultra_low |->
        [thermal_anomaly_confidence |-> 85, acoustic_anomaly_confidence |-> 80,
         lstm_reconstruction_threshold |-> 40, fusion_correlation_confidence |-> 55,
         gas_analog_threshold |-> 300, temperature_range |-> <<-820, -780>>],
     incubator |->
        [thermal_anomaly_confidence |-> 90, acoustic_anomaly_confidence |-> 85,
         lstm_reconstruction_threshold |-> 40, fusion_correlation_confidence |-> 60,
         temperature_range |-> <<365, 375>>, co2_range |-> <<45, 55>>,
         humidity_range |-> <<85, 95>>],
     centrifuge |->
        [thermal_anomaly_confidence |-> 85, acoustic_anomaly_confidence |-> 75,
         lstm_reconstruction_threshold |-> 50,
         vibration_threshold |-> 5, current_threshold |-> 50],
     autoclave |->
        [thermal_anomaly_confidence |-> 95, acoustic_anomaly_confidence |-> 80,
         lstm_reconstruction_threshold |-> 55, fusion_correlation_confidence |-> 65,
         pressure_range |-> <<15, 20>>],
     oven |->
        [thermal_anomaly_confidence |-> 92, acoustic_anomaly_confidence |-> 85,
         lstm_reconstruction_threshold |-> 45, temperature_max |-> 2500],
     water_bath |->
        [thermal_anomaly_confidence |-> 88, acoustic_anomaly_confidence |-> 85,
         lstm_reconstruction_threshold |-> 40, temperature_range |-> <<350, 400>>],
     vacuum_pump |->
        [thermal_anomaly_confidence |-> 85, acoustic_anomaly_confidence |-> 78,
         lstm_reconstruction_threshold |-> 48, pressure_min |-> 1],
     fume_hood |->
        [acoustic_anomaly_confidence |-> 82, lstm_reconstruction_threshold |-> 45,
         airflow_min |-> 100, gas_analog_threshold |-> 200],
     shaker |->
        [acoustic_anomaly_confidence |-> 80, lstm_reconstruction_threshold |-> 50,
         vibration_threshold |-> 3]]

(* equipment_registry.get_equipment_thresholds *)
get_equipment_thresholds(equipment_type) ==
    IF equipment_type \in DOMAIN EQUIPMENT_THRESHOLDS
    THEN EQUIPMENT_THRESHOLDS[equipment_type]
    ELSE EQUIPMENT_THRESHOLDS["fridge"]

(* dict.get(key) and dict.get(key, default) *)
Lookup(d, key) == IF key \in DOMAIN d THEN Some(d[key]) ELSE None
LookupOr(d, key, default) == IF key \in DOMAIN d THEN d[key] ELSE default

(***************************************************************************)
(* read_equipment_sensors: hw maps the configuration key of each sensor to *)
(* what its driver does in this call, Some(value) or None when the read    *)
(* raises.                                                                 *)
(***************************************************************************)
SensorWiring ==
    [thermal |-> "thermal_camera", audio |-> "microphone", gas |-> "gas_sensor",
     temperature |-> "temperature", co2 |-> "co2", oxygen |-> "oxygen",
     vibration |-> "vibration", current |-> "current"]

read_equipment_sensors(equipment, hw) ==
    LET read == {k \in DOMAIN SensorWiring :
                    /\ SensorWiring[k] \in equipment.sensors
                    /\ hw[SensorWiring[k]] # None}
    IN  [k \in read |-> Val(hw[SensorWiring[k]])]

(***************************************************************************)
(* build_lstm_feature_vector: arrays are tuples of integers; the mean and  *)
(* the root mean square are rounded down.                                  *)
(***************************************************************************)
RECURSIVE SeqSum(_)
SeqSum(xs) == IF xs = <<>> THEN 0 ELSE Head(xs) + SeqSum(Tail(xs))

Mean(xs) == SeqSum(xs) \div Len(xs)
ISqrt(n) == CHOOSE r \in 0..n : r * r <= n /\ (r + 1) * (r + 1) > n
Rms(xs) == ISqrt(Mean([i \in 1..Len(xs) |-> xs[i] * xs[i]]))

build_lstm_feature_vector(sensors) ==
    << Lookup(sensors, "temperature"),
       Lookup(sensors, "gas"),
       Lookup(sensors, "vibration"),
       Lookup(sensors, "current"),
       IF Has(sensors, "audio") THEN Some(Rms(sensors["audio"])) ELSE None,
       IF Has(sensors, "thermal") THEN Some(Mean(sensors["thermal"])) ELSE None >>

(* a variant of push_window whose eviction drops the newest vector (pop()
   in place of pop(0)); C10 must tell it from push_window *)
push_window_drop_newest(buffer, feature_vector) ==
    LET appended == Append(buffer, feature_vector)
    IN  IF Len(appended) > LSTM_WINDOW
        THEN SubSeq(appended, 1, LSTM_WINDOW)
        ELSE appended

(* monitor_equipment, lines 723-727: append, then keep the last 50 *)
push_window(buffer, feature_vector) ==
    LET appended == Append(buffer, feature_vector)
    IN  IF Len(appended) > LSTM_WINDOW THEN Tail(appended) ELSE appended

(***************************************************************************)
(* The channel loop of check_anomaly_and_alert and of                      *)
(* check_raw_sensor_thresholds: one send per discord or email entry of     *)
(* alert_channels; sms only logs a warning.                                *)
(***************************************************************************)
send_to_channels(channels, message) ==
    LET F[i \in 0..Len(channels)] ==
            IF i = 0 THEN <<>>
            ELSE IF channels[i] \in {"discord", "email"}
            THEN Append(F[i - 1], [channel |-> channels[i], message |-> message])
            ELSE F[i - 1]
    IN  F[Len(channels)]

(***************************************************************************)
(* check_raw_sensor_thresholds: the alerts found, and the sends made.      *)
(***************************************************************************)
(* range test with the bounds counted as outside; C20 must tell it from
   OutOfRange *)
OutOfRangeOrOnBound(v, range) ==
    range # None /\ (v <= Val(range)[1] \/ v >= Val(range)[2])

OutOfRange(v, range) == range # None /\ (v < Val(range)[1] \/ v > Val(range)[2])

(* threshold test that lets the threshold itself pass; C19 must tell it from
   AtOrOver *)
StrictlyOver(v, threshold) == threshold # None /\ v > Val(threshold)

AtOrOver(v, threshold) == threshold # None /\ v >= Val(threshold)
Below(v, minimum) == minimum # None /\ v < Val(minimum)

(* the body of check_raw_sensor_thresholds after the lookup of the type's
   thresholds: the alerts list, one item per appended text, in order *)
raw_alerts_of(thresholds, sensors) ==
    LET Item(cond, name, key) ==
            IF cond THEN <<[name |-> name, value |-> sensors[key]]>> ELSE <<>>
    IN  Item(Has(sensors, "temperature")
                /\ OutOfRange(sensors["temperature"], Lookup(thresholds, "temperature_range")),
             "temperature_range", "temperature")
        \o Item(Has(sensors, "temperature")
                /\ AtOrOver(sensors["temperature"], Some(THERMAL_CRITICAL_THRESHOLD_C)),
             "temperature_critical", "temperature")
        \o Item(Has(sensors, "gas")
                /\ AtOrOver(sensors["gas"],
                            Some(LookupOr(thresholds, "gas_analog_threshold",
                                          GAS_ANALOG_THRESHOLD))),
             "gas", "gas")
        \o Item(Has(sensors, "co2")
                /\ OutOfRange(sensors["co2"], Lookup(thresholds, "co2_range")),
             "co2", "co2")
        \o Item(Has(sensors, "oxygen")
                /\ Below(sensors["oxygen"], Lookup(thresholds, "oxygen_min")),
             "oxygen", "oxygen")
        \o Item(Has(sensors, "vibration")
                /\ AtOrOver(sensors["vibration"], Lookup(thresholds, "vibration_threshold")),
             "vibration", "vibration")
        \o Item(Has(sensors, "current")
                /\ AtOrOver(sensors["current"], Lookup(thresholds, "current_threshold")),
             "current", "current")

raw_alerts(equipment_type, sensors) ==
    raw_alerts_of(get_equipment_thresholds(equipment_type), sensors)

(* a variant of check_raw_sensor_thresholds that sends one message per
   alert; C9 must tell it from check_raw_sensor_thresholds *)
check_raw_sensor_thresholds_per_event(equipment, sensors) ==
    LET alerts == raw_alerts(equipment.type, sensors)
        F[i \in 0..Len(alerts)] ==
            IF i = 0 THEN <<>>
            ELSE F[i - 1] \o send_to_channels(equipment.alert_channels,
                                [kind |-> "SENSOR THRESHOLD ALERT",
                                 equipment_id |-> equipment.id,
                                 items |-> <<alerts[i]>>])
    IN  [alerts |-> alerts, sends |-> F[Len(alerts)]]

check_raw_sensor_thresholds(equipment, sensors) ==
    LET alerts == raw_alerts(equipment.type, sensors)
    IN  [alerts |-> alerts,
         sends |-> IF alerts # <<>>
                   THEN send_to_channels(equipment.alert_channels,
                            [kind |-> "SENSOR THRESHOLD ALERT",
                             equipment_id |-> equipment.id, items |-> alerts])
                   ELSE <<>>]

(***************************************************************************)
(* check_anomaly_and_alert: the anomalies found in the inference results,  *)
(* and the sends made.  A result is [error |-> ...] or carries model and   *)
(* its score.                                                              *)
(***************************************************************************)
(* a variant of anomaly_of with the comparison of the two CNN results
   turned round (< for >); C7 must tell it from anomaly_of *)
anomaly_of_inverted(result, thresholds) ==
    IF "error" \in DOMAIN result THEN <<>>
    ELSE IF result.model = "thermal_cnn"
    THEN LET threshold == LookupOr(thresholds, "thermal_anomaly_confidence", 85)
         IN  IF result.anomaly_confidence < threshold
             THEN <<[type |-> "thermal", value |-> result.anomaly_confidence,
                     threshold |-> threshold]>>
             ELSE <<>>
    ELSE IF result.model = "acoustic_cnn"
    THEN LET threshold == LookupOr(thresholds, "acoustic_anomaly_confidence", 85)
         IN  IF result.anomaly_confidence < threshold
             THEN <<[type |-> "acoustic", value |-> result.anomaly_confidence,
                     threshold |-> threshold]>>
             ELSE <<>>
    ELSE <<>>

anomaly_of(result, thresholds) ==
    IF "error" \in DOMAIN result THEN <<>>
    ELSE IF result.model = "thermal_cnn"
    THEN LET threshold == LookupOr(thresholds, "thermal_anomaly_confidence", 85)
         IN  IF result.anomaly_confidence > threshold
             THEN <<[type |-> "thermal", value |-> result.anomaly_confidence,
                     threshold |-> threshold]>>
             ELSE <<>>
    ELSE IF result.model = "acoustic_cnn"
    THEN LET threshold == LookupOr(thresholds, "acoustic_anomaly_confidence", 85)
         IN  IF result.anomaly_confidence > threshold
             THEN <<[type |-> "acoustic", value |-> result.anomaly_confidence,
                     threshold |-> threshold]>>
             ELSE <<>>
    ELSE IF result.model = "lstm_ae"
    THEN LET threshold == LookupOr(thresholds, "lstm_reconstruction_threshold", 45)
         IN  IF result.reconstruction_error > threshold
             THEN <<[type |-> "lstm_degradation", value |-> result.reconstruction_error,
                     threshold |-> threshold]>>
             ELSE <<>>
    ELSE <<>>

(* a variant of anomalies_detected whose loop ends at the first error result
   (break for continue); C22 must tell it from anomalies_detected *)
anomalies_detected_until_error(equipment_type, inference_results) ==
    LET thresholds == get_equipment_thresholds(equipment_type)
        F[i \in 0..Len(inference_results)] ==
            IF i = 0 THEN [found |-> <<>>, stopped |-> FALSE]
            ELSE IF F[i - 1].stopped \/ "error" \in DOMAIN inference_results[i]
            THEN [found |-> F[i - 1].found, stopped |-> TRUE]
            ELSE [found |-> F[i - 1].found \o anomaly_of(inference_results[i], thresholds),
                  stopped |-> FALSE]
    IN  F[Len(inference_results)].found

anomalies_detected(equipment_type, inference_results) ==
    LET thresholds == get_equipment_thresholds(equipment_type)
        F[i \in 0..Len(inference_results)] ==
            IF i = 0 THEN <<>>
            ELSE F[i - 1] \o anomaly_of(inference_results[i], thresholds)
    IN  F[Len(inference_results)]

check_anomaly_and_alert(equipment, inference_results) ==
    LET anomalies == anomalies_detected(equipment.type, inference_results)
    IN  [anomalies |-> anomalies,
         sends |-> IF anomalies # <<>>
                   THEN send_to_channels(equipment.alert_channels,
                            [kind |-> "ANOMALY DETECTED",
                             equipment_id |-> equipment.id, items |-> anomalies])
                   ELSE <<>>]

(* a variant of lstm_ready that submits any non-empty buffer; C11 must tell
   it from lstm_ready *)
lstm_ready_nonempty(buffer) == Len(buffer) >= 1

(* monitor_equipment, line 730: run the LSTM if we have enough data *)
lstm_ready(buffer) == Len(buffer) >= LSTM_WINDOW

(* a variant of cycle_sends in which a model anomaly takes the place of
   the raw alert; C5 must tell it from cycle_sends *)
cycle_sends_model_first(raw, fusion) ==
    IF fusion.anomalies # <<>> THEN fusion.sends ELSE raw.sends

(* monitor_equipment: the raw check sends its alert, then, after the
   inference, check_anomaly_and_alert sends its own *)
cycle_sends(raw, fusion) == raw.sends \o fusion.sends

(* the calls monitor_equipment made in a cycle, in the order of its
   statements (lines 686-747), as [stage, call] records: the thermal and
   acoustic inference run when their reading is there, run_lstm_inference
   when the buffer is full after the append, the alert is sent inside
   check_anomaly_and_alert when it found an anomaly.  left is 0 when the
   call was left during the read, 1 when during the fusion, 2 at its end *)
cycle_stages(c, left) ==
    LET Stage(stage, fn) == <<[stage |-> stage, call |-> fn]>>
        stages_to_fusion ==
            Stage("read", "read_equipment_sensors")
            \o Stage("security", "monitor_security")
            \o Stage("raw-threshold", "check_raw_sensor_thresholds")
            \o (IF Has(c.sensors, "thermal")
                THEN Stage("inference", "run_thermal_inference") ELSE <<>>)
            \o (IF Has(c.sensors, "audio")
                THEN Stage("inference", "run_acoustic_inference") ELSE <<>>)
            \o Stage("buffer-update", "equipment_lstm_buffers")
            \o (IF c.lstm_input # None
                THEN Stage("inference", "run_lstm_inference") ELSE <<>>)
            \o Stage("fusion", "check_anomaly_and_alert")
    IN  IF left >= 2
        THEN stages_to_fusion
             \o (IF c.anomalies # <<>>
                 THEN Stage("alert", "check_anomaly_and_alert") ELSE <<>>)
             \o Stage("snapshot", "equipment_states")
        ELSE IF left >= 1 THEN stages_to_fusion
        ELSE Stage("read", "read_equipment_sensors")

with_stages(c, left) == [stages |-> cycle_stages(c, left)] @@ c

(* a variant of leaves_monitor_equipment without the two try blocks
   around monitor_security and check_raw_sensor_thresholds; C30 must tell
   it from leaves_monitor_equipment *)
leaves_monitor_equipment_unguarded(fault) ==
    fault \in {"read", "fusion", "security", "raw"}

(* the exceptions that leave monitor_equipment: those of monitor_security
   and of check_raw_sensor_thresholds are caught by the try / except
   Exception around each call (lines 692-701) *)
leaves_monitor_equipment(fault) == fault \in {"read", "fusion"}

(***************************************************************************)
(* monitor_equipment(equipment): one iteration for one equipment.          *)
(*   hw      what each sensor driver does in this call                     *)
(*   motion  the PIR level                                                 *)
(*   inf     what the three interpreters return when they are run          *)
(*   fault   where an exception is raised: "none"; "read" (in              *)
(*           read_equipment_sensors, outside its try blocks) and "fusion"  *)
(*           (in check_anomaly_and_alert, before its channel loop), which  *)
(*           leave monitor_equipment; "security" (in monitor_security, at  *)
(*           the read of the PIR level) and "raw" (in                      *)
(*           check_raw_sensor_thresholds, before its channel loop), which  *)
(*           monitor_equipment catches and logs                            *)
(* The result carries the state after the call and whether it raised.      *)
(***************************************************************************)
monitor_equipment(st, equipment, hw, motion, inf, fault, t) ==
    LET id == equipment.id
        sensors == read_equipment_sensors(equipment, hw)
        sec == IF fault = "security"
               THEN [last_call |-> st.last_call] @@ st.security
               ELSE monitor_security(st.security, equipment, sensors, motion, t)
        raw == IF fault = "raw"
               THEN [alerts |-> <<>>, sends |-> <<>>]
               ELSE check_raw_sensor_thresholds(equipment, sensors)
        caught == (IF fault = "security" THEN <<"Error in security monitoring">> ELSE <<>>)
                  \o (IF fault = "raw"
                      THEN <<"Error in raw sensor threshold checks">> ELSE <<>>)
        thermal_result == IF Has(sensors, "thermal") THEN <<inf.thermal>> ELSE <<>>
        acoustic_result == IF Has(sensors, "audio") THEN <<inf.acoustic>> ELSE <<>>
        old_buffer == LookupOr(st.buffers, id, <<>>)
        feature_vector == build_lstm_feature_vector(sensors)
        buffer == push_window(old_buffer, feature_vector)
        lstm_input == IF lstm_ready(buffer) THEN Some(buffer) ELSE None
        lstm_result == IF lstm_input # None THEN <<inf.lstm>> ELSE <<>>
        inference_results == thermal_result \o acoustic_result \o lstm_result
        fusion == check_anomaly_and_alert(equipment, inference_results)
        buffers == [e \in DOMAIN st.buffers \cup {id} |->
                        IF e = id THEN buffer ELSE st.buffers[e]]
        all_pushed == [e \in DOMAIN st.pushed \cup {id} |->
                        IF e = id THEN Append(LookupOr(st.pushed, id, <<>>), feature_vector)
                        ELSE st.pushed[e]]
        states == [e \in DOMAIN st.states \cup {id} |->
                        IF e = id
                        THEN [last_reading |-> sensors,
                              last_inference |-> inference_results,
                              timestamp |-> t]
                        ELSE st.states[e]]
        report(raised, stage) ==
          with_stages(
            [equipment_id |-> id, equipment_type |-> equipment.type,
             raised |-> raised, time |-> t,
             fault |-> fault,
             caught |-> IF stage >= 1 THEN caught ELSE <<>>,
             sensors |-> IF stage >= 1 THEN sensors ELSE EmptyMap,
             raw_alerts |-> IF stage >= 1 THEN raw.alerts ELSE <<>>,
             inference_results |-> IF stage >= 1 THEN inference_results ELSE <<>>,
             window_before |-> old_buffer,
             lstm_input |-> IF stage >= 1 THEN lstm_input ELSE None,
             anomalies |-> IF stage >= 2 THEN fusion.anomalies ELSE <<>>,
             sends |-> IF stage >= 2 THEN cycle_sends(raw, fusion)
                       ELSE IF stage >= 1 THEN raw.sends ELSE <<>>],
            stage)
    IN  IF leaves_monitor_equipment(fault) /\ fault # "fusion"
        THEN [raised |-> TRUE, security |-> st.security, last_call |-> st.last_call,
              buffers |-> st.buffers, pushed |-> st.pushed, states |-> st.states,
              cycle |-> Some(report(TRUE, 0))]
        ELSE IF leaves_monitor_equipment(fault)
        THEN [raised |-> TRUE, security |-> sec, last_call |-> sec.last_call,
              buffers |-> buffers, pushed |-> all_pushed, states |-> st.states,
              cycle |-> Some(report(TRUE, 1))]
        ELSE [raised |-> FALSE, security |-> sec, last_call |-> sec.last_call,
              buffers |-> buffers, pushed |-> all_pushed, states |-> states,
              cycle |-> Some(report(FALSE, 2))]

PipelineState ==
    [security |-> SecurityState, last_call |-> last_call,
     buffers |-> equipment_lstm_buffers, pushed |-> pushed,
     states |-> equipment_states]

(***************************************************************************)
(* The program starts on a Monday at 17:55, five minutes before the end    *)
(* of the business hours.                                                  *)
(***************************************************************************)
StartTime == 17 * 3600 + 55 * 60

Init ==
    /\ now = StartTime
    /\ last_motion_time = None
    /\ motion_active = FALSE
    /\ baseline_readings = EmptyMap
    /\ activity_log = <<>>
    /\ intrusion_alerts = <<>>
    /\ last_call = None
    /\ equipment_lstm_buffers = EmptyMap
    /\ equipment_states = EmptyMap
    /\ iteration_count = 0
    /\ loop_start = StartTime
    /\ pc = "top"
    /\ idx = 1
    /\ cycle_trace = <<>>
    /\ failed_before = {}
    /\ pushed = EmptyMap
    /\ cycle = None
    /\ shutdown_requested = FALSE
    /\ cycle_count = 0
    /\ hardened = None
    /\ in_flight = None
    /\ call = None
    /\ retry = None

(* The calls of monitor_security so far: each one ends with a routine record. *)
SecurityCalls ==
    Cardinality({i \in DOMAIN activity_log :
                    activity_log[i].event_type = "routine_monitoring"})

(* Time passes between two calls (time.sleep and the work of a cycle). *)
Tick(steps, max_elapsed) ==
    /\ \E d \in steps :
        /\ now + d <= StartTime + max_elapsed
        /\ now' = now + d
    /\ UNCHANGED <<security_vars, pipeline_vars, loop_vars, hardened_vars, call_vars>>

(* The equipment was already monitored at this instant: the loop monitors
   each equipment once per cycle, and time passes between two cycles. *)
MonitoredNow(equipment_id) ==
    \E k \in DOMAIN activity_log :
        /\ activity_log[k].event_type = "routine_monitoring"
        /\ activity_log[k].equipment_id = equipment_id
        /\ activity_log[k].timestamp = now

(* One call monitor_security(equipment, readings) from the monitoring loop. *)
MonitorSecurity(inputs, max_calls) ==
    /\ SecurityCalls < max_calls
    /\ \E i \in 1..Len(equipment_list), inp \in inputs :
        LET r == monitor_security(SecurityState, equipment_list[i],
                                  inp.sensors, inp.motion, now)
        IN  /\ ~MonitoredNow(equipment_list[i].id)
            /\ last_motion_time' = r.last_motion_time
            /\ motion_active' = r.motion_active
            /\ baseline_readings' = r.baseline_readings
            /\ activity_log' = r.activity_log
            /\ intrusion_alerts' = r.intrusion_alerts
            /\ last_call' = r.last_call
    /\ UNCHANGED <<now, pipeline_vars, loop_vars, hardened_vars, call_vars>>

(***************************************************************************)
(* SpecMotion: the PIR level varies from call to call, the reading is a    *)
(* normal one.  SpecTamper: the readings vary, nothing moves.              *)
(***************************************************************************)
MotionTickSteps == {30, 300}
MotionInputs == {[sensors |-> [temperature |-> 50], motion |-> m] : m \in BOOLEAN}

MotionTick == Tick(MotionTickSteps, MaxMotionElapsed)
MotionCall == MonitorSecurity(MotionInputs, MaxMotionCalls)
MotionNext == MotionTick \/ MotionCall
SpecMotion == Init /\ [][MotionNext]_vars

TamperTickSteps == {60, 600}
TamperSensorInputs ==
    { EmptyMap,
      [temperature |-> 50],
      [temperature |-> 200],
      [temperature |-> 50, vibration |-> 25] }
TamperInputs == {[sensors |-> s, motion |-> FALSE] : s \in TamperSensorInputs}

TamperTick == Tick(TamperTickSteps, MaxTamperElapsed)
TamperCall == MonitorSecurity(TamperInputs, MaxTamperCalls)
TamperNext == TamperTick \/ TamperCall
SpecTamper == Init /\ [][TamperNext]_vars

(***************************************************************************)
(* main_loop of premonitor_main_multi_equipment.py                         *)
(***************************************************************************)
(* a variant of after_equipment for a loop without the try/except around
   monitor_equipment: the exception ends the loop; C4 must tell it from
   after_equipment *)
after_equipment_uncaught(raised, position) ==
    IF raised THEN [pc |-> "crashed", idx |-> position]
    ELSE IF position + 1 > Len(equipment_list)
    THEN [pc |-> "sleep", idx |-> position + 1]
    ELSE [pc |-> "equipment", idx |-> position + 1]

(* what the loop does once monitor_equipment has returned or raised: the
   exception is caught inside the for loop, which goes on *)
after_equipment(raised, position) ==
    IF position + 1 > Len(equipment_list)
    THEN [pc |-> "sleep", idx |-> position + 1]
    ELSE [pc |-> "equipment", idx |-> position + 1]

Max(a, b) == IF a >= b THEN a ELSE b

(* lines 786-787 *)
sleep_time(loop_duration) == Max(0, SENSOR_READ_INTERVAL - loop_duration)

(* while True: iteration_count += 1; loop_start = time.time() *)
LoopBegin(max_iterations) ==
    /\ pc = "top"
    /\ iteration_count < max_iterations
    /\ iteration_count' = iteration_count + 1
    /\ loop_start' = now
    /\ pc' = "equipment"
    /\ idx' = 1
    /\ cycle_trace' = <<>>
    /\ UNCHANGED <<now, security_vars, pipeline_vars, failed_before, hardened_vars, call_vars>>

(* for equipment in equipment_list: try: monitor_equipment(equipment) *)
LoopEquipment(inputs, durations) ==
    /\ pc = "equipment"
    /\ idx <= Len(equipment_list)
    /\ \E inp \in inputs[idx], d \in durations :
        LET equipment == equipment_list[idx]
            r == monitor_equipment(PipelineState, equipment, inp.hw, inp.motion,
                                   inp.inf, inp.fault, now)
            next == after_equipment(r.raised, idx)
        IN  /\ last_motion_time' = r.security.last_motion_time
            /\ motion_active' = r.security.motion_active
            /\ baseline_readings' = r.security.baseline_readings
            /\ activity_log' = r.security.activity_log
            /\ intrusion_alerts' = r.security.intrusion_alerts
            /\ last_call' = r.last_call
            /\ equipment_lstm_buffers' = r.buffers
            /\ pushed' = r.pushed
            /\ equipment_states' = r.states
            /\ cycle' = r.cycle
            /\ cycle_trace' = Append(cycle_trace,
                                     [equipment_id |-> equipment.id, raised |-> r.raised])
            /\ failed_before' = IF r.raised THEN failed_before \cup {equipment.id}
                                ELSE failed_before
            /\ pc' = next.pc
            /\ idx' = next.idx
            /\ now' = now + d
    /\ UNCHANGED <<iteration_count, loop_start, hardened_vars, call_vars>>

(* time.sleep(max(0, sensor_read_interval - loop_duration)) *)
LoopSleep ==
    /\ pc = "sleep"
    /\ now' = now + sleep_time(now - loop_start)
    /\ pc' = "top"
    /\ UNCHANGED <<security_vars, pipeline_vars, iteration_count, loop_start, idx,
                   cycle_trace, failed_before, hardened_vars, call_vars>>

(***************************************************************************)
(* What the drivers and the interpreters return.                           *)
(***************************************************************************)
ErrorResult == [error |-> "inference error"]
ThermalResult(c) == [model |-> "thermal_cnn", anomaly_confidence |-> c]
AcousticResult(c) == [model |-> "acoustic_cnn", anomaly_confidence |-> c]
LstmResult(e) == [model |-> "lstm_ae", reconstruction_error |-> e]

ThermalFrame == <<20, 24>>
AudioFrame == <<3, 4>>

Confidences == {50, 65, 90}
ThermalResults == {ErrorResult} \cup {ThermalResult(c) : c \in Confidences}
AcousticResults == {ErrorResult} \cup {AcousticResult(c) : c \in Confidences}

FridgeHw(gas, temperature) ==
    [thermal_camera |-> Some(ThermalFrame), microphone |-> Some(AudioFrame),
     gas_sensor |-> Some(gas), temperature |-> Some(temperature)]
CentrifugeHw(vibration) ==
    [microphone |-> Some(AudioFrame), vibration |-> Some(vibration)]

(***************************************************************************)
(* SpecCycle: one cycle over the equipment list with every combination of  *)
(* raw readings and model results.                                         *)
(***************************************************************************)
MaxCycleIterations == 1

CycleInputs(equipment) ==
    IF equipment.id = Fridge.id
    THEN {[hw |-> FridgeHw(g, tp), motion |-> FALSE, fault |-> "none",
           inf |-> [thermal |-> th, acoustic |-> ac, lstm |-> ErrorResult]] :
            g \in {250, 650}, tp \in {50, 800},
            th \in ThermalResults, ac \in AcousticResults}
    ELSE {[hw |-> CentrifugeHw(v), motion |-> FALSE, fault |-> "none",
           inf |-> [thermal |-> ErrorResult, acoustic |-> ac, lstm |-> ErrorResult]] :
            v \in {2, 8}, ac \in AcousticResults}

CycleBegin == LoopBegin(MaxCycleIterations)
CycleEquipment == LoopEquipment([i \in DOMAIN equipment_list |-> CycleInputs(equipment_list[i])], {5})
CycleNext == CycleBegin \/ CycleEquipment \/ LoopSleep
SpecCycle == Init /\ [][CycleNext]_vars

(***************************************************************************)
(* SpecLoop: the loop over several cycles, with pipelines that raise and   *)
(* cycles that overrun the read interval.                                  *)
(***************************************************************************)
MaxIterations == 2

LoopInputs(equipment) ==
    LET normal == IF equipment.id = Fridge.id THEN FridgeHw(250, 50) ELSE CentrifugeHw(2)
        alarm == IF equipment.id = Fridge.id THEN FridgeHw(650, 50) ELSE CentrifugeHw(8)
        quiet == [thermal |-> ThermalResult(50), acoustic |-> AcousticResult(50),
                  lstm |-> ErrorResult]
        loud == [thermal |-> ThermalResult(90), acoustic |-> AcousticResult(90),
                 lstm |-> ErrorResult]
    IN  {[hw |-> normal, motion |-> FALSE, fault |-> f, inf |-> quiet] :
            f \in {"none", "read", "fusion"}}
        \cup {[hw |-> alarm, motion |-> FALSE, fault |-> "none", inf |-> loud]}

MainBegin == LoopBegin(MaxIterations)
MainEquipment == LoopEquipment([i \in DOMAIN equipment_list |-> LoopInputs(equipment_list[i])], {5, 40})
LoopNext == MainBegin \/ MainEquipment \/ LoopSleep
SpecLoop == Init /\ [][LoopNext]_vars

(***************************************************************************)
(* SpecValidate: single calls of validate_equipment_config.  An entry of   *)
(* the 'sensors' dict of an instance is a dict that may or may not hold    *)
(* the key 'enabled'.                                                      *)
(***************************************************************************)
EQUIPMENT_TYPES ==
    [fridge |-> [sensors_required |-> <<"thermal", "acoustic">>],
     freezer_ultra_low |-> [sensors_required |-> <<"thermal", "acoustic", "temperature">>],
     incubator |-> [sensors_required |-> <<"thermal", "temperature">>],
     centrifuge |-> [sensors_required |-> <<"acoustic">>],
     autoclave |-> [sensors_required |-> <<"thermal", "acoustic">>],
     oven |-> [sensors_required |-> <<"thermal">>],
     water_bath |-> [sensors_required |-> <<"thermal", "temperature">>],
     vacuum_pump |-> [sensors_required |-> <<"acoustic">>],
     fume_hood |-> [sensors_required |-> <<"acoustic">>],
     shaker |-> [sensors_required |-> <<"acoustic">>]]

sensor_name_mapping ==
    [thermal |-> "thermal_camera", acoustic |-> "microphone",
     temperature |-> "temperature", gas |-> "gas_sensor", vibration |-> "vibration",
     current |-> "current", co2 |-> "co2", humidity |-> "humidity",
     pressure |-> "pressure", airflow |-> "airflow"]

(* a variant of sensor_missing that is content with the key being there;
   C29 must tell it from sensor_missing *)
sensor_missing_key_only(sensors_config, config_key) ==
    config_key \notin DOMAIN sensors_config

(* config_key not in sensors_config or
   not sensors_config[config_key].get("enabled", False) *)
sensor_missing(sensors_config, config_key) ==
    \/ config_key \notin DOMAIN sensors_config
    \/ ~LookupOr(sensors_config[config_key], "enabled", FALSE)

validate_equipment_config(eq_type, sensors_config) ==
    IF eq_type \notin DOMAIN EQUIPMENT_TYPES
    THEN [valid |-> FALSE, message |-> "Unknown equipment type", sensor |-> None]
    ELSE LET required == EQUIPMENT_TYPES[eq_type].sensors_required
             missing == {i \in DOMAIN required :
                            sensor_missing(sensors_config,
                                           LookupOr(sensor_name_mapping, required[i],
                                                    required[i]))}
         IN  IF missing = {}
             THEN [valid |-> TRUE, message |-> "Configuration valid", sensor |-> None]
             ELSE [valid |-> FALSE, message |-> "Required sensor missing",
                   sensor |-> Some(required[CHOOSE i \in missing :
                                                \A j \in missing : i <= j])]

ValidateTypes == DOMAIN EQUIPMENT_TYPES \cup {"spectrometer"}

SensorEntries == {[enabled |-> TRUE], [enabled |-> FALSE], EmptyMap}

(* sensors dicts over the wiring keys of the required capabilities, and
   over "acoustic", the name of a capability that is not a wiring key *)
ValidateConfigs ==
    UNION {[ks -> SensorEntries] :
            ks \in SUBSET {"thermal_camera", "microphone", "temperature", "acoustic"}}

ValidateProbe ==
    /\ call = None
    /\ \E eq_type \in ValidateTypes, sensors_config \in ValidateConfigs :
        call' = Some([op |-> "validate_equipment_config", type |-> eq_type,
                      sensors |-> sensors_config,
                      ret |-> validate_equipment_config(eq_type, sensors_config)])
    /\ UNCHANGED <<now, security_vars, pipeline_vars, loop_vars, hardened_vars,
                   in_flight, retry>>

SpecValidate == Init /\ [][ValidateProbe]_vars

(***************************************************************************)
(* SpecFeatures: single calls of build_lstm_feature_vector on a 'sensors'  *)
(* dict given as its items in insertion order, <<key, value>> pairs with   *)
(* distinct keys.                                                          *)
(***************************************************************************)
(* dict.get(key) on the items of a dict *)
items_get(items, key) ==
    LET hit == {i \in DOMAIN items : items[i][1] = key}
    IN  IF hit = {} THEN None ELSE Some(items[CHOOSE i \in hit : TRUE][2])

(* a variant of build_lstm_feature_vector_items that fills the vector with
   the scalar readings in the order in which they were read; C28 must tell
   it from build_lstm_feature_vector_items *)
build_lstm_feature_vector_read_order(items) ==
    LET scalars == SelectSeq(items, LAMBDA it : it[1] \notin {"audio", "thermal"})
        audio == items_get(items, "audio")
        thermal == items_get(items, "thermal")
    IN  [i \in 1..4 |-> IF i <= Len(scalars) THEN Some(scalars[i][2]) ELSE None]
        \o << IF audio # None THEN Some(Rms(Val(audio))) ELSE None,
              IF thermal # None THEN Some(Mean(Val(thermal))) ELSE None >>

build_lstm_feature_vector_items(items) ==
    LET audio == items_get(items, "audio")
        thermal == items_get(items, "thermal")
    IN  << items_get(items, "temperature"),
           items_get(items, "gas"),
           items_get(items, "vibration"),
           items_get(items, "current"),
           IF audio # None THEN Some(Rms(Val(audio))) ELSE None,
           IF thermal # None THEN Some(Mean(Val(thermal))) ELSE None >>

FeatureReadings ==
    [temperature |-> 50, gas |-> 300, vibration |-> 2, current |-> 25,
     audio |-> AudioFrame, thermal |-> ThermalFrame, co2 |-> 50]

(* every order of every choice of up to four of the seven readings *)
MaxItems == 4

ItemLists ==
    UNION {{[i \in 1..k |-> <<keys[i], FeatureReadings[keys[i]]>>] :
                keys \in {f \in [1..k -> DOMAIN FeatureReadings] :
                            \A i, j \in 1..k : i # j => f[i] # f[j]}} :
           k \in 0..MaxItems}

reversed(items) == [i \in 1..Len(items) |-> items[Len(items) + 1 - i]]

FeatureProbe ==
    /\ call = None
    /\ \E items \in ItemLists :
        call' = Some([op |-> "build_lstm_feature_vector", items |-> items,
                      ret |-> build_lstm_feature_vector_items(items),
                      ret_reversed |-> build_lstm_feature_vector_items(reversed(items))])
    /\ UNCHANGED <<now, security_vars, pipeline_vars, loop_vars, hardened_vars,
                   in_flight, retry>>

SpecFeatures == Init /\ [][FeatureProbe]_vars

(***************************************************************************)
(* SpecHours: single calls of is_after_hours, at times of day around the   *)
(* two bounds of the window on each day of two weeks, under the shipped    *)
(* business hours and others.                                              *)
(***************************************************************************)
HoursConfigs ==
    {[start |-> w[1], end |-> w[2], weekdays_only |-> wo] :
        w \in {<<business_start, business_end>>, <<9 * 3600, 17 * 3600 + 1800>>},
        wo \in BOOLEAN}

TimesOfDay ==
    {0, 86399, 12 * 3600}
    \cup {b + d : b \in {8 * 3600, 9 * 3600, 17 * 3600 + 1800, 18 * 3600}, d \in {-1, 0, 1}}

HoursProbe ==
    /\ call = None
    /\ \E config \in HoursConfigs, day \in 0..13, tod \in TimesOfDay :
        call' = Some([op |-> "is_after_hours", config |-> config,
                      day |-> day, time_of_day |-> tod,
                      ret |-> is_after_hours_in(config, day * 86400 + tod)])
    /\ UNCHANGED <<now, security_vars, pipeline_vars, loop_vars, hardened_vars,
                   in_flight, retry>>

SpecHours == Init /\ [][HoursProbe]_vars

(***************************************************************************)
(* SpecAfterHours: pairs of monitor_security calls on the same equipment,  *)
(* reading and PIR level, the first on Monday at noon, the second the same *)
(* evening or on Saturday at noon, each on the same stored state as seen   *)
(* from its own time (the timestamps of the state move with the call).     *)
(***************************************************************************)
BusinessTime == 12 * 3600
AfterHoursShifts == {8 * 3600, 5 * 86400}

StoredStates(t) ==
    {[last_motion_time |-> lmt, motion_active |-> active,
      baseline_readings |-> baseline, activity_log |-> <<>>, intrusion_alerts |-> <<>>] :
        lmt \in {None, Some(t - 30), Some(t - 600)},
        active \in BOOLEAN,
        baseline \in {EmptyMap,
                      [e \in {Fridge.id} |->
                            [temperature |-> Some(50), timestamp |-> Some(t - 60)]]}}

shifted(st, d) ==
    [st EXCEPT !.last_motion_time = IF @ = None THEN None ELSE Some(Val(@) + d),
               !.baseline_readings =
                    [e \in DOMAIN @ |->
                        [@[e] EXCEPT !.timestamp =
                            IF @ = None THEN None ELSE Some(Val(@) + d)]]]

AfterHoursProbe ==
    /\ call = None
    /\ \E st \in StoredStates(BusinessTime), i \in DOMAIN equipment_list,
          inp \in MotionInputs \cup TamperInputs, d \in AfterHoursShifts :
        call' = Some([op |-> "monitor_security", shift |-> d, stored |-> st,
                      motion |-> inp.motion, sensors |-> inp.sensors,
                      business |-> monitor_security(st, equipment_list[i], inp.sensors,
                                                    inp.motion, BusinessTime),
                      after |-> monitor_security(shifted(st, d), equipment_list[i],
                                                 inp.sensors, inp.motion,
                                                 BusinessTime + d)])
    /\ UNCHANGED <<now, security_vars, pipeline_vars, loop_vars, hardened_vars,
                   in_flight, retry>>

SpecAfterHours == Init /\ [][AfterHoursProbe]_vars

(***************************************************************************)
(* SpecLog: calls of the ActivityLogger, one per step, across the end of   *)
(* the business hours.                                                     *)
(***************************************************************************)
MaxLogCalls == 3
MaxLogElapsed == 600

LogTickSteps == {300}
LogEvents ==
    {[event_type |-> "motion_detected", details |-> [location |-> "Lab A"]],
     [event_type |-> "tamper_detected", details |-> [type |-> "thermal_tampering"]],
     [event_type |-> "routine_monitoring", details |-> [sensors_read |-> {"temperature"}]]}

LogTick == Tick(LogTickSteps, MaxLogElapsed)

LogCall ==
    /\ Len(activity_log) < MaxLogCalls
    /\ \E ev \in LogEvents, equipment_id \in EquipmentIds, written \in BOOLEAN :
        /\ activity_log' = log_activity_written(activity_log, ev.event_type,
                                                equipment_id, ev.details, now, written)
        /\ call' = Some([op |-> "log_activity", event_type |-> ev.event_type,
                         equipment_id |-> equipment_id, details |-> ev.details,
                         time |-> now, written |-> written])
    /\ UNCHANGED <<now, last_motion_time, motion_active, baseline_readings,
                   intrusion_alerts, last_call, pipeline_vars, loop_vars,
                   hardened_vars, in_flight, retry>>

LogRead ==
    /\ \E hours \in {0, 24} :
        call' = Some([op |-> "get_recent_activity", hours |-> hours,
                      ret |-> get_recent_activity(activity_log, hours, now)])
    /\ UNCHANGED <<now, security_vars, pipeline_vars, loop_vars, hardened_vars,
                   in_flight, retry>>

LogNext == LogTick \/ LogCall \/ LogRead
SpecLog == Init /\ [][LogNext]_vars

(***************************************************************************)
(* SpecCadence: the main loop over three cycles of quiet readings in which *)
(* each equipment takes 5, 15 or 40 seconds, so that a cycle takes less    *)
(* than the interval, exactly the interval, or more.                       *)
(***************************************************************************)
MaxCadenceIterations == 3

CadenceInputs(equipment) ==
    {inp \in LoopInputs(equipment) : inp.fault = "none" /\ inp.inf.thermal = ThermalResult(50)}

CadenceBegin == LoopBegin(MaxCadenceIterations)
CadenceEquipment ==
    LoopEquipment([i \in DOMAIN equipment_list |-> CadenceInputs(equipment_list[i])],
                  {5, 15, 40})
CadenceNext == CadenceBegin \/ CadenceEquipment \/ LoopSleep
SpecCadence == Init /\ [][CadenceNext]_vars


(***************************************************************************)
(* SpecFaults: cycles in which monitor_security or                         *)
(* check_raw_sensor_thresholds raises, over normal and alarming readings   *)
(* and quiet and loud model results.                                       *)
(***************************************************************************)
MaxFaultIterations == 1

FaultInputs(equipment) ==
    LET normal == IF equipment.id = Fridge.id THEN FridgeHw(250, 50) ELSE CentrifugeHw(2)
        alarm == IF equipment.id = Fridge.id THEN FridgeHw(650, 50) ELSE CentrifugeHw(8)
        quiet == [thermal |-> ThermalResult(50), acoustic |-> AcousticResult(50),
                  lstm |-> ErrorResult]
        loud == [thermal |-> ThermalResult(90), acoustic |-> AcousticResult(90),
                 lstm |-> ErrorResult]
    IN  {[hw |-> h, motion |-> mo, fault |-> f, inf |-> i] :
            h \in {normal, alarm}, mo \in BOOLEAN,
            f \in {"none", "security", "raw"}, i \in {quiet, loud}}

FaultBegin == LoopBegin(MaxFaultIterations)
FaultEquipment ==
    LoopEquipment([i \in DOMAIN equipment_list |-> FaultInputs(equipment_list[i])], {5})
FaultNext == FaultBegin \/ FaultEquipment \/ LoopSleep
SpecFaults == Init /\ [][FaultNext]_vars

(***************************************************************************)
(* SpecShutdown: the main loop and SIGINT.  premonitor_main_multi_equipment *)
(* installs no signal handler, so SIGINT raises KeyboardInterrupt in the   *)
(* main thread wherever it is.  No "except Exception" of the pipeline or   *)
(* of the for loop catches it; "except KeyboardInterrupt" around the while *)
(* loop does, and main_loop returns.  Inside monitor_equipment the         *)
(* interrupt unwinds like an exception escaping at the same point: during  *)
(* the sensor read ("read") or during the fusion step ("fusion").          *)
(***************************************************************************)
MaxShutdownIterations == 2

ShutdownInputs(equipment) ==
    {inp \in LoopInputs(equipment) : inp.fault = "none"}

KeyboardInterrupt(inputs) ==
    \/ /\ pc \in {"top", "sleep"}
       /\ pc' = "stopped"
       /\ UNCHANGED <<now, security_vars, pipeline_vars, iteration_count, loop_start,
                      idx, cycle_trace, failed_before, hardened_vars, call_vars>>
    \/ /\ pc = "equipment"
       /\ idx <= Len(equipment_list)
       /\ \E inp \in inputs[idx], at \in {"read", "fusion"} :
            LET equipment == equipment_list[idx]
                r == monitor_equipment(PipelineState, equipment, inp.hw, inp.motion,
                                       inp.inf, at, now)
            IN  /\ last_motion_time' = r.security.last_motion_time
                /\ motion_active' = r.security.motion_active
                /\ baseline_readings' = r.security.baseline_readings
                /\ activity_log' = r.security.activity_log
                /\ intrusion_alerts' = r.security.intrusion_alerts
                /\ last_call' = r.last_call
                /\ equipment_lstm_buffers' = r.buffers
                /\ pushed' = r.pushed
                /\ equipment_states' = r.states
                /\ cycle' = r.cycle
                /\ cycle_trace' = Append(cycle_trace,
                                         [equipment_id |-> equipment.id, raised |-> TRUE])
       /\ pc' = "stopped"
       /\ UNCHANGED <<now, iteration_count, loop_start, idx, failed_before,
                      hardened_vars, call_vars>>

ShutdownBegin == LoopBegin(MaxShutdownIterations)
ShutdownEquipment ==
    LoopEquipment([i \in DOMAIN equipment_list |-> ShutdownInputs(equipment_list[i])], {5, 40})
ShutdownInterrupt ==
    KeyboardInterrupt([i \in DOMAIN equipment_list |-> ShutdownInputs(equipment_list[i])])
ShutdownNext == ShutdownBegin \/ ShutdownEquipment \/ LoopSleep \/ ShutdownInterrupt
SpecShutdown == Init /\ [][ShutdownNext]_vars

(***************************************************************************)
(* SpecDispatch: the main loop and the channel sends.  The alert functions *)
(* (check_raw_sensor_thresholds, check_anomaly_and_alert and               *)
(* send_intrusion_alert) call alert_manager.send_discord_alert,            *)
(* send_email_alert and send_sms_alert in the thread of main_loop, one     *)
(* after the other: until a send returns, the pipeline is inside it.  A    *)
(* channel send takes as long as the channel takes.                        *)
(***************************************************************************)
MaxDispatchIterations == 2

(* the channel sends one monitor_equipment call makes, in order: those of
   send_intrusion_alert, then of the raw check, then of the fusion *)
sends_of_cycle(r, alerts_before) ==
    LET F[i \in 0..Len(r.security.intrusion_alerts)] ==
            IF i <= Len(alerts_before) THEN <<>>
            ELSE F[i - 1] \o
                 << [channel |-> "discord", message |-> r.security.intrusion_alerts[i]],
                    [channel |-> "email", message |-> r.security.intrusion_alerts[i]],
                    [channel |-> "sms", message |-> r.security.intrusion_alerts[i]] >>
    IN  F[Len(r.security.intrusion_alerts)] \o Val(r.cycle).sends

(* the assignments of one finished monitor_equipment call *)
FinishEquipment(r, equipment, d) ==
    LET next == after_equipment(r.raised, idx)
    IN  /\ last_motion_time' = r.security.last_motion_time
        /\ motion_active' = r.security.motion_active
        /\ baseline_readings' = r.security.baseline_readings
        /\ activity_log' = r.security.activity_log
        /\ intrusion_alerts' = r.security.intrusion_alerts
        /\ last_call' = r.last_call
        /\ equipment_lstm_buffers' = r.buffers
        /\ pushed' = r.pushed
        /\ equipment_states' = r.states
        /\ cycle' = r.cycle
        /\ cycle_trace' = Append(cycle_trace,
                                 [equipment_id |-> equipment.id, raised |-> r.raised])
        /\ failed_before' = IF r.raised THEN failed_before \cup {equipment.id}
                            ELSE failed_before
        /\ pc' = next.pc
        /\ idx' = next.idx
        /\ now' = now + d

(* monitor_equipment is called; with nothing to send it runs to its end,
   otherwise the thread enters the first channel send *)
DispatchEquipment(inputs, durations) ==
    /\ pc = "equipment"
    /\ idx <= Len(equipment_list)
    /\ \E inp \in inputs[idx], d \in durations :
        LET equipment == equipment_list[idx]
            r == monitor_equipment(PipelineState, equipment, inp.hw, inp.motion,
                                   inp.inf, inp.fault, now)
            sends == sends_of_cycle(r, intrusion_alerts)
        IN  IF sends = <<>>
            THEN FinishEquipment(r, equipment, d) /\ UNCHANGED in_flight
            ELSE /\ in_flight' = Some([inp |-> inp, started |-> now, sends |-> sends])
                 /\ pc' = "sending"
                 /\ UNCHANGED <<now, security_vars, pipeline_vars, idx, cycle_trace,
                                failed_before>>
    /\ UNCHANGED <<iteration_count, loop_start, hardened_vars, call, retry>>

(* the channel sends return after d seconds and the pipeline goes on to
   its end *)
ChannelReturns(durations) ==
    /\ pc = "sending"
    /\ \E d \in durations :
        LET equipment == equipment_list[idx]
            inp == Val(in_flight).inp
            r == monitor_equipment(PipelineState, equipment, inp.hw, inp.motion,
                                   inp.inf, inp.fault, Val(in_flight).started)
        IN  FinishEquipment(r, equipment, d)
    /\ in_flight' = None
    /\ UNCHANGED <<iteration_count, loop_start, hardened_vars, call, retry>>

DispatchInputs(equipment) ==
    {[hw |-> inp.hw, motion |-> mo, fault |-> inp.fault, inf |-> inp.inf] :
        inp \in ShutdownInputs(equipment), mo \in BOOLEAN}

DispatchBegin == LoopBegin(MaxDispatchIterations)
DispatchCall ==
    DispatchEquipment([i \in DOMAIN equipment_list |-> DispatchInputs(equipment_list[i])],
                      {5})
DispatchReturn == ChannelReturns({5, 40})
DispatchNext == DispatchBegin \/ DispatchCall \/ DispatchReturn \/ LoopSleep
SpecDispatch == Init /\ [][DispatchNext]_vars

(***************************************************************************)
(* SpecChannels: the channel loops of the alert functions, with sends that *)
(* may raise.  outcome maps each channel to "ok" or to the exception its   *)
(* send raises.                                                            *)
(***************************************************************************)
(* a variant of channel_loop with one try around the whole loop: the first
   exception ends the loop; C14 must tell it from channel_loop *)
channel_loop_one_try(channels, outcome) ==
    LET F[i \in 0..Len(channels)] ==
            IF i = 0 THEN [attempts |-> <<>>, logged |-> <<>>, raised |-> FALSE]
            ELSE IF F[i - 1].logged # <<>> THEN F[i - 1]
            ELSE IF channels[i] \in {"discord", "email"}
            THEN [attempts |-> Append(F[i - 1].attempts, channels[i]),
                  logged |-> IF outcome[channels[i]] = "ok" THEN F[i - 1].logged
                             ELSE Append(F[i - 1].logged,
                                         [channel |-> channels[i],
                                          error |-> outcome[channels[i]]]),
                  raised |-> FALSE]
            ELSE F[i - 1]
    IN  F[Len(channels)]

(* check_anomaly_and_alert, lines 554-565, and check_raw_sensor_thresholds,
   lines 665-674: for channel in alert_channels: try: send; except
   Exception: log.  sms sends nothing. *)
channel_loop(channels, outcome) ==
    LET F[i \in 0..Len(channels)] ==
            IF i = 0 THEN [attempts |-> <<>>, logged |-> <<>>, raised |-> FALSE]
            ELSE IF channels[i] \in {"discord", "email"}
            THEN [attempts |-> Append(F[i - 1].attempts, channels[i]),
                  logged |-> IF outcome[channels[i]] = "ok" THEN F[i - 1].logged
                             ELSE Append(F[i - 1].logged,
                                         [channel |-> channels[i],
                                          error |-> outcome[channels[i]]]),
                  raised |-> FALSE]
            ELSE F[i - 1]
    IN  F[Len(channels)]

send_discord == TRUE
send_email == TRUE
send_sms == TRUE

(* send_intrusion_alert, lines 397-422: one try block per enabled channel *)
intrusion_channels(outcome) ==
    LET enabled == SelectSeq(<<"discord", "email", "sms">>,
                             LAMBDA ch : \/ ch = "discord" /\ send_discord
                                         \/ ch = "email" /\ send_email
                                         \/ ch = "sms" /\ send_sms)
        F[i \in 0..Len(enabled)] ==
            IF i = 0 THEN [attempts |-> <<>>, logged |-> <<>>, raised |-> FALSE]
            ELSE [attempts |-> Append(F[i - 1].attempts, enabled[i]),
                  logged |-> IF outcome[enabled[i]] = "ok" THEN F[i - 1].logged
                             ELSE Append(F[i - 1].logged,
                                         [channel |-> enabled[i],
                                          error |-> outcome[enabled[i]]]),
                  raised |-> FALSE]
    IN  F[Len(enabled)]

ChannelNames == {"discord", "email", "sms"}
SendOutcomes == [ChannelNames -> {"ok", "ConnectionError", "Timeout"}]
ChannelLists == {<<"discord">>, <<"discord", "email">>, <<"email", "discord">>,
                 <<"discord", "email", "sms">>, <<"sms", "email">>}

(* one call of an alert function that has something to send *)
AlertCall ==
    /\ \E op \in {"check_raw_sensor_thresholds", "check_anomaly_and_alert",
                   "send_intrusion_alert"},
          channels \in ChannelLists, outcome \in SendOutcomes :
        call' = Some([op |-> op, channels |-> channels, outcome |-> outcome,
                      result |-> IF op = "send_intrusion_alert"
                                 THEN intrusion_channels(outcome)
                                 ELSE channel_loop(channels, outcome)])
    /\ UNCHANGED <<now, security_vars, pipeline_vars, loop_vars, hardened_vars,
                   in_flight, retry>>

SpecChannels == Init /\ [][AlertCall]_vars

(***************************************************************************)
(* SpecRetry: a call through the wrapper of retry_on_failure.  Delays are  *)
(* in tenths of a second.  Each invocation of the wrapped function returns *)
(* a value, raises an exception of the listed types ("caught") or raises   *)
(* another one ("other").                                                  *)
(***************************************************************************)
MaxRetryAttempts == 4

(* the wrapper on entry: delay = delay_seconds, last_exception = None *)
retry_enter(max_attempts, delay_seconds, backoff_multiplier, default_return) ==
    [max_attempts |-> max_attempts, delay_seconds |-> delay_seconds,
     backoff_multiplier |-> backoff_multiplier, default_return |-> default_return,
     attempt |-> 1, delay |-> delay_seconds, calls |-> <<>>, sleeps |-> <<>>,
     status |-> IF max_attempts >= 1 THEN "running" ELSE "returned",
     result |-> None]

(* a variant of retry_attempt that sleeps after every failure, the last one
   included; C15 must tell it from retry_attempt *)
retry_attempt_sleep_always(r, outcome) ==
    LET calls == Append(r.calls, outcome)
    IN  IF outcome.kind = "value"
        THEN [r EXCEPT !.calls = calls, !.status = "returned",
                       !.result = Some(outcome.value)]
        ELSE IF outcome.kind = "other"
        THEN [r EXCEPT !.calls = calls, !.status = "raised",
                       !.result = Some(outcome.value)]
        ELSE IF r.attempt < r.max_attempts
        THEN [r EXCEPT !.calls = calls, !.sleeps = Append(r.sleeps, r.delay),
                       !.delay = r.delay * r.backoff_multiplier,
                       !.attempt = r.attempt + 1]
        ELSE IF r.default_return # None
        THEN [r EXCEPT !.calls = calls, !.sleeps = Append(r.sleeps, r.delay),
                       !.status = "returned", !.result = r.default_return]
        ELSE [r EXCEPT !.calls = calls, !.sleeps = Append(r.sleeps, r.delay),
                       !.status = "raised", !.result = Some(outcome.value)]

(* one pass of "for attempt in range(1, max_attempts + 1)", with what
   follows the loop when the pass is the last one *)
retry_attempt(r, outcome) ==
    LET calls == Append(r.calls, outcome)
    IN  IF outcome.kind = "value"
        THEN [r EXCEPT !.calls = calls, !.status = "returned",
                       !.result = Some(outcome.value)]
        ELSE IF outcome.kind = "other"
        THEN [r EXCEPT !.calls = calls, !.status = "raised",
                       !.result = Some(outcome.value)]
        ELSE IF r.attempt < r.max_attempts
        THEN [r EXCEPT !.calls = calls, !.sleeps = Append(r.sleeps, r.delay),
                       !.delay = r.delay * r.backoff_multiplier,
                       !.attempt = r.attempt + 1]
        ELSE IF r.default_return # None
        THEN [r EXCEPT !.calls = calls, !.status = "returned",
                       !.result = r.default_return]
        ELSE [r EXCEPT !.calls = calls, !.status = "raised",
                       !.result = Some(outcome.value)]

InvocationOutcomes ==
    {[kind |-> "value", value |-> "reading"],
     [kind |-> "caught", value |-> "IOError"],
     [kind |-> "other", value |-> "KeyboardInterrupt"]}

RetryCall ==
    /\ retry = None
    /\ \E max_attempts \in 0..MaxRetryAttempts, delay_seconds \in {5, 10},
          backoff_multiplier \in {1, 2, 3}, default_return \in {None, Some("default")} :
        retry' = Some(retry_enter(max_attempts, delay_seconds, backoff_multiplier,
                                  default_return))
    /\ UNCHANGED <<now, security_vars, pipeline_vars, loop_vars, hardened_vars,
                   in_flight, call>>

RetryAttempt ==
    /\ retry # None
    /\ Val(retry).status = "running"
    /\ \E outcome \in InvocationOutcomes :
        retry' = Some(retry_attempt(Val(retry), outcome))
    /\ UNCHANGED <<now, security_vars, pipeline_vars, loop_vars, hardened_vars,
                   in_flight, call>>

RetryNext == RetryCall \/ RetryAttempt
SpecRetry == Init /\ [][RetryNext]_vars

(***************************************************************************)
(* SpecTamperRate: single calls of TamperDetector.check_tamper, with the   *)
(* baseline table, the reading and the time of the call as inputs.         *)
(***************************************************************************)
TamperBaselines ==
    {EmptyMap}
    \cup {[e \in {Fridge.id} |-> [temperature |-> tp, timestamp |-> Some(StartTime)]] :
            tp \in {None, Some(50), Some(40)}}
    \cup {[e \in {Centrifuge.id} |-> [temperature |-> Some(50),
                                       timestamp |-> Some(StartTime)]]}
TamperReadings ==
    {EmptyMap}
    \cup {[temperature |-> c] : c \in {50, 100, 101, 200}}
    \cup {[temperature |-> c, vibration |-> v] : c \in {50, 200}, v \in {10, 20}}
TamperElapsed == {0, 30, 60, 180, 181, 600}

TamperProbe ==
    /\ \E baseline \in TamperBaselines, sensors \in TamperReadings,
          elapsed \in TamperElapsed :
        call' = Some([op |-> "check_tamper", equipment_id |-> Fridge.id,
                      baseline |-> baseline, sensors |-> sensors, elapsed |-> elapsed,
                      ret |-> check_tamper(Fridge.id, sensors, baseline,
                                           StartTime + elapsed)])
    /\ UNCHANGED <<now, security_vars, pipeline_vars, loop_vars, hardened_vars,
                   in_flight, retry>>

SpecTamperRate == Init /\ [][TamperProbe]_vars

(***************************************************************************)
(* SpecRaw: single calls of check_raw_sensor_thresholds, for every type of *)
(* the catalog and one type that is not in it, on readings at and around   *)
(* each bound.  ThresholdsAdded is what a deployment adds to the type's    *)
(* entry of EQUIPMENT_THRESHOLDS ("user can add 'oxygen_min' to equipment  *)
(* thresholds"): nothing, or oxygen_min = 19.5 %.                          *)
(***************************************************************************)
RawTypes == DOMAIN EQUIPMENT_THRESHOLDS \cup {"spectrometer"}

ThresholdsAdded == {EmptyMap, [oxygen_min |-> 195]}

RawReadings ==
    {EmptyMap}
    \cup {[temperature |-> v] :
            v \in {-830, -820, -800, -780, -770, 10, 20, 50, 80, 90, 350, 365, 370,
                   375, 380, 400, 410, 740, 749, 750, 800, 1000, 2600}}
    \cup {[gas |-> v] : v \in {100, 199, 200, 299, 300, 599, 600, 650}}
    \cup {[co2 |-> v] : v \in {44, 45, 50, 55, 56, 70}}
    \cup {[oxygen |-> v] : v \in {180, 194, 195, 210}}
    \cup {[vibration |-> v] : v \in {2, 3, 4, 5, 8}}
    \cup {[current |-> v] : v \in {20, 49, 50, 60}}
    \cup {[temperature |-> t, gas |-> g] : t \in {50, 800}, g \in {100, 650}}
    \cup {[temperature |-> 370, co2 |-> c, oxygen |-> 210] : c \in {50, 70}}
    \cup {[vibration |-> v, current |-> c] : v \in {2, 8}, c \in {20, 60}}

RawProbe ==
    /\ \E equipment_type \in RawTypes, added \in ThresholdsAdded,
          sensors \in RawReadings :
        LET thresholds == added @@ get_equipment_thresholds(equipment_type)
        IN  call' = Some([op |-> "check_raw_sensor_thresholds",
                          equipment_type |-> equipment_type,
                          thresholds |-> thresholds, sensors |-> sensors,
                          ret |-> raw_alerts_of(thresholds, sensors)])
    /\ UNCHANGED <<now, security_vars, pipeline_vars, loop_vars, hardened_vars,
                   in_flight, retry>>

SpecRaw == Init /\ [][RawProbe]_vars

(***************************************************************************)
(* SpecRead: single calls of read_equipment_sensors, block by block.       *)
(*   config  the 'sensors' entry of the equipment: wiring key -> enabled   *)
(*           flag; a key that is absent counts as not enabled              *)
(*   hw      what the driver of each wiring key does when it is called:    *)
(*           Some(value), or None when it raises                           *)
(* The result carries the readings, the driver calls made in order, the    *)
(* errors logged and whether an exception left the function.               *)
(***************************************************************************)
WiringOrder ==
    <<"thermal_camera", "microphone", "gas_sensor", "temperature", "co2", "oxygen",
      "vibration", "current">>

WiringKeys == {WiringOrder[i] : i \in 1..Len(WiringOrder)}

ReadingKey ==
    [thermal_camera |-> "thermal", microphone |-> "audio", gas_sensor |-> "gas",
     temperature |-> "temperature", co2 |-> "co2", oxygen |-> "oxygen",
     vibration |-> "vibration", current |-> "current"]

sensor_enabled(config, key) == key \in DOMAIN config /\ config[key]

(* a variant of read_block without the try/except around the driver call;
   C21 must tell it from read_block *)
read_block_uncaught(r, key, config, hw) ==
    IF r.raised \/ ~sensor_enabled(config, key)
    THEN r
    ELSE IF hw[key] # None
    THEN [r EXCEPT !.reads = Append(@, key),
                   !.sensors = (ReadingKey[key] :> Val(hw[key])) @@ @]
    ELSE [r EXCEPT !.reads = Append(@, key), !.raised = TRUE]

(* one 'if enabled: try: read / except: log' block *)
read_block(r, key, config, hw) ==
    IF ~sensor_enabled(config, key)
    THEN r
    ELSE IF hw[key] # None
    THEN [r EXCEPT !.reads = Append(@, key),
                   !.sensors = (ReadingKey[key] :> Val(hw[key])) @@ @]
    ELSE [r EXCEPT !.reads = Append(@, key), !.logged = Append(@, key)]

read_equipment_sensors_blocks(config, hw) ==
    LET F[i \in 0..Len(WiringOrder)] ==
            IF i = 0
            THEN [sensors |-> EmptyMap, reads |-> <<>>, logged |-> <<>>,
                  raised |-> FALSE]
            ELSE read_block(F[i - 1], WiringOrder[i], config, hw)
    IN  F[Len(WiringOrder)]

(* sensors entries: up to three wiring keys configured, each enabled or
   not, and the full wiring of eight enabled sensors *)
SensorConfigs ==
    {[k \in ks |-> k \in on] :
        ks \in {x \in SUBSET WiringKeys : Cardinality(x) <= 3},
        on \in SUBSET WiringKeys}
    \cup {[k \in WiringKeys |-> TRUE]}

(* drivers: any two of them may raise, or all of them *)
DriverOutcomes ==
    {[k \in WiringKeys |-> IF k \in failing THEN None ELSE Some(1)] :
        failing \in {x \in SUBSET WiringKeys : Cardinality(x) <= 2} \cup {WiringKeys}}

ReadProbe ==
    /\ call = None
    /\ \E config \in SensorConfigs, hw \in DriverOutcomes :
        call' = Some([op |-> "read_equipment_sensors", config |-> config, hw |-> hw,
                      ret |-> read_equipment_sensors_blocks(config, hw)])
    /\ UNCHANGED <<now, security_vars, pipeline_vars, loop_vars, hardened_vars,
                   in_flight, retry>>

SpecRead == Init /\ [][ReadProbe]_vars

(***************************************************************************)
(* SpecWindow: fifty-one cycles, so that the LSTM buffer fills and evicts. *)
(* The fridge's temperature drifts by 0.1 C per cycle inside its range, so *)
(* that every cycle pushes a different feature vector.                     *)
(***************************************************************************)
WindowIterations == 51

LstmResults == {ErrorResult, LstmResult(30), LstmResult(60)}

WindowInputs(equipment) ==
    IF equipment.id = Fridge.id
    THEN {[hw |-> FridgeHw(250, 20 + iteration_count), motion |-> FALSE,
           fault |-> "none",
           inf |-> [thermal |-> ThermalResult(50), acoustic |-> AcousticResult(50),
                    lstm |-> l]] :
            l \in IF Len(LookupOr(pushed, Fridge.id, <<>>)) + 1 >= LSTM_WINDOW
                  THEN LstmResults ELSE {ErrorResult}}
    ELSE {[hw |-> CentrifugeHw(2), motion |-> FALSE, fault |-> "none",
           inf |-> [thermal |-> ErrorResult, acoustic |-> AcousticResult(50),
                    lstm |-> ErrorResult]]}

WindowBegin == LoopBegin(WindowIterations)
WindowEquipment == LoopEquipment([i \in DOMAIN equipment_list |-> WindowInputs(equipment_list[i])], {5})
WindowNext == WindowBegin \/ WindowEquipment \/ LoopSleep
SpecWindow == Init /\ [][WindowNext]_vars

(***************************************************************************)
(* premonitor_main_hardened.py: main() and signal_handler.                 *)
(***************************************************************************)
THERMAL_ANOMALY_CONFIDENCE == 80
ACOUSTIC_ANOMALY_CONFIDENCE == 75
FUSION_CORRELATION_CONFIDENCE == 60
MaxHardenedCycles == 2

(* main(), step 3: the alerts handed to send_alert_in_background, in order *)
hardened_fusion(thermal_score, acoustic_score, gas_reading) ==
    (IF thermal_score > THERMAL_ANOMALY_CONFIDENCE
     THEN <<[title |-> "CRITICAL: High-Confidence Thermal Anomaly",
             severity |-> "CRITICAL", type |-> "thermal", value |-> thermal_score]>>
     ELSE IF acoustic_score > ACOUSTIC_ANOMALY_CONFIDENCE
     THEN <<[title |-> "CRITICAL: High-Confidence Acoustic Anomaly",
             severity |-> "CRITICAL", type |-> "acoustic", value |-> acoustic_score]>>
     ELSE IF /\ thermal_score > FUSION_CORRELATION_CONFIDENCE
             /\ acoustic_score > FUSION_CORRELATION_CONFIDENCE
     THEN <<[title |-> "WARNING: Correlated Anomaly Detected",
             severity |-> "WARNING", type |-> "correlated",
             value |-> <<thermal_score, acoustic_score>>]>>
     ELSE <<>>)
    \o
    (IF gas_reading > GAS_ANALOG_THRESHOLD
     THEN <<[title |-> "WARNING: High Gas Level Detected",
             severity |-> "WARNING", type |-> "raw_gas", value |-> gas_reading]>>
     ELSE <<>>)

(* one pass of the while loop of main(); a sensor that returns None makes
   the cycle skip inference and alerting *)
hardened_cycle(valid, thermal_score, acoustic_score, gas_reading) ==
    [valid |-> valid, thermal_score |-> thermal_score,
     acoustic_score |-> acoustic_score, gas_reading |-> gas_reading,
     alerts |-> IF valid
                THEN hardened_fusion(thermal_score, acoustic_score, gas_reading)
                ELSE <<>>]

HardenedScores == {0, 50, 65, 78, 90}

(* main(), step 4 and line 292: time.sleep(config.SENSOR_READ_INTERVAL) *)
hardened_sleep(elapsed) == SENSOR_READ_INTERVAL

(* what reading, inference and alerting of one cycle take, in seconds *)
HardenedDurations == {5, 40}

HardenedCycle ==
    /\ ~shutdown_requested
    /\ cycle_count < MaxHardenedCycles
    /\ \E valid \in BOOLEAN, th \in HardenedScores, ac \in HardenedScores,
          gas \in {250, 650}, elapsed \in HardenedDurations :
        /\ hardened' = Some([started |-> now, elapsed |-> elapsed,
                             slept |-> hardened_sleep(elapsed)]
                            @@ hardened_cycle(valid, th, ac, gas))
        /\ now' = now + elapsed + hardened_sleep(elapsed)
    /\ cycle_count' = cycle_count + 1
    /\ UNCHANGED <<security_vars, pipeline_vars, loop_vars, shutdown_requested, call_vars>>

(* signal_handler: SIGINT or SIGTERM *)
SignalHandler ==
    /\ ~shutdown_requested
    /\ shutdown_requested' = TRUE
    /\ UNCHANGED <<now, security_vars, pipeline_vars, loop_vars, cycle_count, hardened,
                   call_vars>>

HardenedNext == HardenedCycle \/ SignalHandler
SpecHardened == Init /\ [][HardenedNext]_vars

(***************************************************************************)
(* Claims on the security monitor.                                         *)
(***************************************************************************)
MotionAlertTimes(alerts) ==
    {alerts[k].time : k \in {j \in DOMAIN alerts :
                                alerts[j].alert_type = "unauthorized_motion"}}

(* C1: a new motion detection (idle -> active) sends an unauthorized_motion
   alert exactly when no motion alert was sent within the cooldown before
   it: the first detection alerts, a second one within cooldown_seconds
   does not, a detection after the cooldown has expired alerts again. *)
C1_MotionCooldownAlerts ==
    (last_call # None /\ Val(last_call).new_detection) =>
        (Val(last_call).motion_alert <=>
            ~ \E t \in MotionAlertTimes(Val(last_call).alerts_before) :
                Val(last_call).time - t < cooldown_seconds)

(* What the code does instead: a new detection never alerts, since
   detect_motion has just restarted the cooldown it is then tested against. *)
C1_NewDetectionNeverAlerts ==
    (last_call # None /\ Val(last_call).new_detection) => ~Val(last_call).motion_alert

(* C2: any two unauthorized_motion alerts (here: of the same equipment) are
   at least cooldown_seconds apart, also while the motion read stays
   positive over consecutive cycles. *)
C2_MotionAlertsCooldownApart ==
    \A i, j \in DOMAIN intrusion_alerts :
        (/\ i < j
         /\ intrusion_alerts[i].equipment_id = intrusion_alerts[j].equipment_id
         /\ intrusion_alerts[i].alert_type = "unauthorized_motion"
         /\ intrusion_alerts[j].alert_type = "unauthorized_motion")
        => intrusion_alerts[j].time - intrusion_alerts[i].time >= cooldown_seconds

(* C3: after every check_tamper call (made by monitor_security), reporting
   tampering or not, the baseline of that equipment holds the temperature
   of that call's reading and the time of that call. *)
C3_BaselineUpdatedByEveryCall ==
    last_call # None =>
        LET c == Val(last_call)
        IN  /\ c.equipment_id \in DOMAIN baseline_readings
            /\ baseline_readings[c.equipment_id] =
                 [temperature |-> IF Has(c.sensors, "temperature")
                                  THEN Some(c.sensors["temperature"]) ELSE None,
                  timestamp |-> Some(c.time)]

(* What the code does: the baseline is the reading and time of the latest
   call that reported no tampering. *)
C3_BaselineUpdatedWhenNoTamper ==
    (last_call # None /\ Val(last_call).tamper = None) =>
        LET c == Val(last_call)
        IN  /\ c.equipment_id \in DOMAIN baseline_readings
            /\ baseline_readings[c.equipment_id].timestamp = Some(c.time)

(***************************************************************************)
(* Claims on the orchestrator loop and on the per-equipment pipeline.      *)
(***************************************************************************)
TraceIds(trace) == [i \in DOMAIN trace |-> trace[i].equipment_id]
ListIds == [i \in DOMAIN equipment_list |-> equipment_list[i].id]
RoutineRecords(equipment_id) ==
    Cardinality({i \in DOMAIN activity_log :
                    /\ activity_log[i].equipment_id = equipment_id
                    /\ activity_log[i].event_type = "routine_monitoring"})

(* C4: when the pipeline of one equipment raises in a cycle, the loop does
   not terminate, every equipment of the list is still processed once and
   in order in that cycle, and the equipment that failed is processed again
   in the following cycles. *)
C4_FailureIsolation ==
    /\ pc # "crashed"
    /\ pc = "equipment" =>
          /\ idx <= Len(equipment_list)
          /\ TraceIds(cycle_trace) = SubSeq(ListIds, 1, idx - 1)
    /\ pc = "sleep" => TraceIds(cycle_trace) = ListIds
    /\ (pc = "sleep" /\ failed_before # {}) =>
          \A e \in failed_before : \E i \in DOMAIN cycle_trace :
              cycle_trace[i].equipment_id = e

(* C4 witness: the fridge raised on its sensor read in the first cycle, the
   centrifuge ran its routine in both cycles, and the second cycle processed
   the fridge again, this time to its end. *)
C4_Witness ==
    /\ iteration_count = 2
    /\ pc = "sleep"
    /\ failed_before = {Fridge.id}
    /\ \A i \in DOMAIN cycle_trace : ~cycle_trace[i].raised
    /\ RoutineRecords(Centrifuge.id) = 2
    /\ RoutineRecords(Fridge.id) = 1
    /\ Fridge.id \in DOMAIN equipment_states

(* the raw threshold violations of a reading, by the rules of the raw
   fail-safe: temperature outside the range of the type or at the global
   ceiling, gas at its threshold, vibration at its threshold *)
RawViolations(equipment_type, sensors) ==
    LET th == get_equipment_thresholds(equipment_type)
    IN  {n \in {"temperature_range", "temperature_critical", "gas", "vibration"} :
            \/ /\ n = "temperature_range"
               /\ "temperature" \in DOMAIN sensors
               /\ "temperature_range" \in DOMAIN th
               /\ \/ sensors["temperature"] < th["temperature_range"][1]
                  \/ sensors["temperature"] > th["temperature_range"][2]
            \/ /\ n = "temperature_critical"
               /\ "temperature" \in DOMAIN sensors
               /\ sensors["temperature"] >= THERMAL_CRITICAL_THRESHOLD_C
            \/ /\ n = "gas"
               /\ "gas" \in DOMAIN sensors
               /\ "gas_analog_threshold" \in DOMAIN th
               /\ sensors["gas"] >= th["gas_analog_threshold"]
            \/ /\ n = "vibration"
               /\ "vibration" \in DOMAIN sensors
               /\ "vibration_threshold" \in DOMAIN th
               /\ sensors["vibration"] >= th["vibration_threshold"]}

SentChannels(equipment_id) ==
    LET equipment == CHOOSE e \in {equipment_list[i] : i \in DOMAIN equipment_list} :
                        e.id = equipment_id
    IN  {equipment.alert_channels[i] : i \in DOMAIN equipment.alert_channels}
            \cap {"discord", "email"}

Alerted(sends, channel, kind, name) ==
    \E i \in DOMAIN sends :
        /\ sends[i].channel = channel
        /\ sends[i].message.kind = kind
        /\ \E j \in DOMAIN sends[i].message.items :
              sends[i].message.items[j].name = name

(* C5: in every cycle of an equipment whose reading was taken, each raw
   threshold violation of the reading is alerted on every discord or email
   channel of the equipment, whatever the model results of the cycle are
   (anomaly, no anomaly, inference error, model not run). *)
C5_RawAlertsNeverSuppressed ==
    (cycle # None /\ Val(cycle).sensors # EmptyMap) =>
        LET c == Val(cycle)
        IN  \A n \in RawViolations(c.equipment_type, c.sensors) :
                /\ \E j \in DOMAIN c.raw_alerts : c.raw_alerts[j].name = n
                /\ \A ch \in SentChannels(c.equipment_id) :
                      Alerted(c.sends, ch, "SENSOR THRESHOLD ALERT", n)

(* C5 witness: a fridge cycle whose gas reading is over the threshold, whose
   thermal model reports an anomaly and whose acoustic inference failed; the
   gas alert went out on discord and on email. *)
C5_Witness ==
    /\ cycle # None
    /\ Val(cycle).equipment_id = Fridge.id
    /\ "gas" \in RawViolations("fridge", Val(cycle).sensors)
    /\ \E i \in DOMAIN Val(cycle).anomalies : Val(cycle).anomalies[i].type = "thermal"
    /\ \E i \in DOMAIN Val(cycle).inference_results :
          "error" \in DOMAIN Val(cycle).inference_results[i]
    /\ Alerted(Val(cycle).sends, "discord", "SENSOR THRESHOLD ALERT", "gas")
    /\ Alerted(Val(cycle).sends, "email", "SENSOR THRESHOLD ALERT", "gas")

(* C5 in the hardened main: in a cycle that reaches the fusion step, a gas
   reading over the threshold is alerted whatever the two scores are. *)
C5_HardenedGasIndependent ==
    (hardened # None /\ Val(hardened).valid
        /\ Val(hardened).gas_reading > GAS_ANALOG_THRESHOLD) =>
        \E i \in DOMAIN Val(hardened).alerts : Val(hardened).alerts[i].type = "raw_gas"

Confidence(results, model) ==
    LET hit == {i \in DOMAIN results :
                    /\ "error" \notin DOMAIN results[i]
                    /\ results[i].model = model}
    IN  IF hit = {} THEN None ELSE Some(results[CHOOSE i \in hit : TRUE].anomaly_confidence)

FusionAnomalies(anomalies) ==
    SelectSeq(anomalies, LAMBDA a : a.type \in {"thermal", "acoustic", "correlated"})

(* C6: when in one cycle neither the thermal nor the acoustic confidence
   exceeds its own anomaly threshold and both exceed the correlation
   threshold of the type, fusion emits exactly one correlated anomaly and
   no thermal or acoustic one (0.65 and 0.65 with thresholds 0.85, 0.85 and
   0.60 on a fridge). *)
C6_CorrelatedWarningEmitted ==
    cycle # None =>
        LET c == Val(cycle)
            th == get_equipment_thresholds(c.equipment_type)
            t == Confidence(c.inference_results, "thermal_cnn")
            a == Confidence(c.inference_results, "acoustic_cnn")
        IN  (/\ ~c.raised
             /\ t # None /\ a # None
             /\ "fusion_correlation_confidence" \in DOMAIN th
             /\ Val(t) <= th["thermal_anomaly_confidence"]
             /\ Val(a) <= th["acoustic_anomaly_confidence"]
             /\ Val(t) > th["fusion_correlation_confidence"]
             /\ Val(a) > th["fusion_correlation_confidence"])
            => /\ Len(FusionAnomalies(c.anomalies)) = 1
               /\ FusionAnomalies(c.anomalies)[1].type = "correlated"

(* C6 in the hardened main: scores over the correlation threshold and not
   over their own thresholds give exactly the correlated WARNING. *)
C6_HardenedCorrelatedWarning ==
    (hardened # None /\ Val(hardened).valid
        /\ Val(hardened).thermal_score <= THERMAL_ANOMALY_CONFIDENCE
        /\ Val(hardened).acoustic_score <= ACOUSTIC_ANOMALY_CONFIDENCE
        /\ Val(hardened).thermal_score > FUSION_CORRELATION_CONFIDENCE
        /\ Val(hardened).acoustic_score > FUSION_CORRELATION_CONFIDENCE) =>
        LET f == SelectSeq(Val(hardened).alerts, LAMBDA x : x.type # "raw_gas")
        IN  Len(f) = 1 /\ f[1].type = "correlated" /\ f[1].severity = "WARNING"

(* C7: a fridge cycle with thermal confidence 0.90 (threshold 0.85) and
   acoustic confidence 0.50 (under the acoustic threshold 0.85 and under
   the correlation threshold 0.60) emits exactly one thermal anomaly, with
   value 0.90 and threshold 0.85, and no acoustic or correlated one. *)
C7_OneThermalCritical ==
    (/\ cycle # None
     /\ ~Val(cycle).raised
     /\ Val(cycle).equipment_type = "fridge"
     /\ Confidence(Val(cycle).inference_results, "thermal_cnn") = Some(90)
     /\ Confidence(Val(cycle).inference_results, "acoustic_cnn") = Some(50))
    => FusionAnomalies(Val(cycle).anomalies)
          = <<[type |-> "thermal", value |-> 90, threshold |-> 85]>>

(* C7 witness: such a cycle took place, and its one anomaly was sent. *)
C7_Witness ==
    /\ cycle # None
    /\ ~Val(cycle).raised
    /\ Val(cycle).equipment_type = "fridge"
    /\ Confidence(Val(cycle).inference_results, "thermal_cnn") = Some(90)
    /\ Confidence(Val(cycle).inference_results, "acoustic_cnn") = Some(50)
    /\ Len(Val(cycle).anomalies) = 1
    /\ \E i \in DOMAIN Val(cycle).sends :
          Val(cycle).sends[i].message.kind = "ANOMALY DETECTED"

(* C7 in the hardened main: 0.90 and 0.50 give the thermal CRITICAL only. *)
C7_HardenedOneThermalCritical ==
    (hardened # None /\ Val(hardened).valid
        /\ Val(hardened).thermal_score = 90 /\ Val(hardened).acoustic_score = 50) =>
        LET f == SelectSeq(Val(hardened).alerts, LAMBDA x : x.type # "raw_gas")
        IN  Len(f) = 1 /\ f[1].type = "thermal" /\ f[1].severity = "CRITICAL"

(* C8: in the hardened main, a cycle whose thermal score exceeds the thermal
   anomaly threshold and whose acoustic score exceeds the acoustic anomaly
   threshold alerts a CRITICAL anomaly for each of the two sensors. *)
C8_BothCriticalEmitted ==
    (hardened # None /\ Val(hardened).valid
        /\ Val(hardened).thermal_score > THERMAL_ANOMALY_CONFIDENCE
        /\ Val(hardened).acoustic_score > ACOUSTIC_ANOMALY_CONFIDENCE) =>
        /\ \E i \in DOMAIN Val(hardened).alerts :
              /\ Val(hardened).alerts[i].type = "thermal"
              /\ Val(hardened).alerts[i].severity = "CRITICAL"
        /\ \E i \in DOMAIN Val(hardened).alerts :
              /\ Val(hardened).alerts[i].type = "acoustic"
              /\ Val(hardened).alerts[i].severity = "CRITICAL"

(* C8 in the multi-equipment main: both anomalies are in the list. *)
C8_MultiBothEmitted ==
    cycle # None =>
        LET c == Val(cycle)
            th == get_equipment_thresholds(c.equipment_type)
            t == Confidence(c.inference_results, "thermal_cnn")
            a == Confidence(c.inference_results, "acoustic_cnn")
        IN  (/\ ~c.raised
             /\ t # None /\ a # None
             /\ Val(t) > th["thermal_anomaly_confidence"]
             /\ Val(a) > th["acoustic_anomaly_confidence"])
            => /\ \E i \in DOMAIN c.anomalies : c.anomalies[i].type = "thermal"
               /\ \E i \in DOMAIN c.anomalies : c.anomalies[i].type = "acoustic"

SendsTo(sends, channel) == SelectSeq(sends, LAMBDA s : s.channel = channel)
SendsOf(sends, channel, kind) ==
    SelectSeq(sends, LAMBDA s : s.channel = channel /\ s.message.kind = kind)
AlertChannels == {"discord", "email", "sms"}

(* C9, as the specification states it: in one cycle of one equipment each
   channel receives at most one anomaly alert message. *)
C9_OneCompositeAlert ==
    cycle # None =>
        \A ch \in AlertChannels : Len(SendsTo(Val(cycle).sends, ch)) <= 1

(* C9, as the code has it: in one cycle of one equipment each channel
   receives at most one raw-threshold message, which carries all the raw
   events of the cycle, and at most one model message, which carries all
   the model anomalies of the cycle; a channel therefore receives at most
   two messages, however many events the cycle produced. *)
C9_OneAlertPerKindAndChannel ==
    cycle # None =>
        LET c == Val(cycle)
        IN  \A ch \in AlertChannels :
              /\ Len(SendsOf(c.sends, ch, "SENSOR THRESHOLD ALERT")) <= 1
              /\ Len(SendsOf(c.sends, ch, "ANOMALY DETECTED")) <= 1
              /\ Len(SendsTo(c.sends, ch)) <= 2
              /\ \A i \in DOMAIN c.sends :
                    /\ c.sends[i].message.equipment_id = c.equipment_id
                    /\ c.sends[i].message.kind = "SENSOR THRESHOLD ALERT"
                          => c.sends[i].message.items = c.raw_alerts
                    /\ c.sends[i].message.kind = "ANOMALY DETECTED"
                          => c.sends[i].message.items = c.anomalies

(* C9 witness: a fridge cycle with two raw events and two model anomalies:
   discord and email each got two messages, four sends in all. *)
C9_Witness ==
    /\ cycle # None
    /\ Len(Val(cycle).raw_alerts) >= 2
    /\ Len(Val(cycle).anomalies) >= 2
    /\ Len(Val(cycle).sends) = 4
    /\ Len(SendsTo(Val(cycle).sends, "discord")) = 2
    /\ Len(SendsTo(Val(cycle).sends, "email")) = 2

LastOf(s, n) == SubSeq(s, Len(s) - n + 1, Len(s))
Least(a, b) == IF a <= b THEN a ELSE b

(* C10: after any number of cycles the LSTM buffer of an equipment holds at
   most 50 feature vectors, which are the most recently pushed ones in the
   order of their pushes; a push onto a full buffer drops its oldest vector
   and nothing else. *)
C10_WindowKeepsLatest ==
    /\ \A e \in DOMAIN equipment_lstm_buffers :
          LET buffer == equipment_lstm_buffers[e]
              all == pushed[e]
          IN  /\ Len(buffer) <= LSTM_WINDOW
              /\ buffer = LastOf(all, Least(Len(all), LSTM_WINDOW))
    /\ (cycle # None /\ Len(Val(cycle).window_before) = LSTM_WINDOW) =>
          LET e == Val(cycle).equipment_id
          IN  equipment_lstm_buffers[e]
                = Append(Tail(Val(cycle).window_before), pushed[e][Len(pushed[e])])

(* C10 witness: the fridge pushed its 51st vector onto a full buffer; the
   buffer still holds 50 vectors, the first vector pushed is gone and the
   second is now the oldest. *)
C10_Witness ==
    /\ Fridge.id \in DOMAIN pushed
    /\ Len(pushed[Fridge.id]) = LSTM_WINDOW + 1
    /\ Len(equipment_lstm_buffers[Fridge.id]) = LSTM_WINDOW
    /\ \A i \in DOMAIN equipment_lstm_buffers[Fridge.id] :
          equipment_lstm_buffers[Fridge.id][i] # pushed[Fridge.id][1]
    /\ equipment_lstm_buffers[Fridge.id][1] = pushed[Fridge.id][2]
    /\ pushed[Fridge.id][1] # pushed[Fridge.id][2]

(***************************************************************************)
(* Claims on the LSTM submission.                                          *)
(***************************************************************************)
(* C11: run_lstm_inference is called in a cycle of an equipment only with a
   window of exactly 50 vectors, which is the buffer of that equipment; as
   long as fewer than 50 vectors have been pushed for the equipment, and so
   in the first 49 cycles, nothing is submitted and no LSTM result is in the
   inference results. *)
C11_LstmOnlyOnFullWindow ==
    cycle # None =>
        LET c == Val(cycle)
            n == Len(LookupOr(pushed, c.equipment_id, <<>>))
        IN  /\ c.lstm_input # None =>
                  /\ Len(Val(c.lstm_input)) = LSTM_WINDOW
                  /\ Val(c.lstm_input) = equipment_lstm_buffers[c.equipment_id]
            /\ (n < LSTM_WINDOW \/ iteration_count < LSTM_WINDOW) =>
                  /\ c.lstm_input = None
                  /\ Len(c.inference_results)
                        = Cardinality(DOMAIN c.sensors \cap {"thermal", "audio"})

(* C11 witness: the 50th cycle of the fridge submitted its full window and
   got a reconstruction error back. *)
C11_Witness ==
    /\ cycle # None
    /\ Val(cycle).equipment_id = Fridge.id
    /\ Len(pushed[Fridge.id]) = LSTM_WINDOW
    /\ Val(cycle).lstm_input = Some(equipment_lstm_buffers[Fridge.id])
    /\ \E i \in DOMAIN Val(cycle).inference_results :
          Val(cycle).inference_results[i] = LstmResult(60)

(***************************************************************************)
(* Claims on shutdown.                                                     *)
(***************************************************************************)
(* C12: when the multi-equipment main loop has stopped on a shutdown
   signal, no pipeline of the last cycle was cut short (each equipment that
   was started ran to its end and wrote its snapshot) and the cycle was
   complete: the signal took effect at a cycle boundary only. *)
C12_ShutdownAtCycleBoundary ==
    pc = "stopped" =>
        /\ Len(cycle_trace) \in {0, Len(equipment_list)}
        /\ \A i \in DOMAIN cycle_trace :
              /\ ~cycle_trace[i].raised
              /\ cycle_trace[i].equipment_id \in DOMAIN equipment_states
              /\ equipment_states[cycle_trace[i].equipment_id].timestamp >= loop_start

(* C12 in the hardened main: once shutdown_requested is set, no further
   cycle starts. *)
C12_HardenedNoCycleAfterShutdown ==
    [][shutdown_requested => (cycle_count' = cycle_count /\ hardened' = hardened)]_vars

(* C12 in the multi-equipment main: after the stop, no further equipment is
   processed and no cycle starts. *)
C12_NothingAfterStop ==
    [][pc = "stopped" => UNCHANGED vars]_vars

(***************************************************************************)
(* Claims on the alert dispatch.                                           *)
(***************************************************************************)
(* C13: handing an alert off does not wait for a channel send to complete:
   the thread of the main loop is never inside a channel send, so that a
   send that is slow or never returns cannot keep the loop from the next
   equipment and the next cycle. *)
C13_HandoffDoesNotWait ==
    pc # "sending" /\ in_flight = None

SendingChannels(op, channels) ==
    IF op = "send_intrusion_alert" THEN <<"discord", "email", "sms">>
    ELSE SelectSeq(channels, LAMBDA ch : ch \in {"discord", "email"})

(* C14: in a call of an alert function, whatever the sends of the channels
   raise, the send is attempted once on every configured channel that has
   a send, in the configured order, each exception is logged with its
   channel, and none reaches the caller. *)
C14_ChannelsIndependent ==
    (call # None /\ "outcome" \in DOMAIN Val(call)) =>
        LET c == Val(call)
            failed == SelectSeq(SendingChannels(c.op, c.channels),
                                LAMBDA ch : c.outcome[ch] # "ok")
        IN  /\ ~c.result.raised
            /\ c.result.attempts = SendingChannels(c.op, c.channels)
            /\ c.result.logged
                  = [i \in DOMAIN failed |->
                        [channel |-> failed[i], error |-> c.outcome[failed[i]]]]

(* C14 witness: the discord send raised in a check_anomaly_and_alert call
   for channels discord then email; the email send was still attempted and
   the call returned. *)
C14_Witness ==
    /\ call # None
    /\ "outcome" \in DOMAIN Val(call)
    /\ Val(call).op = "check_anomaly_and_alert"
    /\ Val(call).channels = <<"discord", "email">>
    /\ Val(call).outcome["discord"] = "ConnectionError"
    /\ Val(call).outcome["email"] = "ok"
    /\ Val(call).result.attempts = <<"discord", "email">>
    /\ Len(Val(call).result.logged) = 1
    /\ ~Val(call).result.raised

(***************************************************************************)
(* Claims on retry_on_failure.                                             *)
(***************************************************************************)
Pow(b, e) == LET F[k \in 0..e] == IF k = 0 THEN 1 ELSE b * F[k - 1] IN F[e]
Failures(calls) == Cardinality({i \in DOMAIN calls : calls[i].kind = "caught"})

(* C15: a call through retry_on_failure invokes the function at most
   max_attempts times; the first success ends it and is its result, so
   every invocation before the last one failed; the wait after the k-th
   failure, k < max_attempts, is delay_seconds * backoff_multiplier^(k-1),
   and there is no wait after the last failure; every pass either ends the
   call or uses up one of the max_attempts passes. *)
C15_RetryBounded ==
    retry # None =>
        LET r == Val(retry)
            n == Len(r.calls)
        IN  /\ n <= r.max_attempts
            /\ \A i \in 1..(n - 1) : r.calls[i].kind = "caught"
            /\ (n >= 1 /\ r.calls[n].kind = "value") =>
                  r.status = "returned" /\ r.result = Some(r.calls[n].value)
            /\ r.status = "running" => r.attempt = n + 1 /\ r.attempt <= r.max_attempts
            /\ Len(r.sleeps)
                  = Cardinality({k \in 1..Failures(r.calls) : k < r.max_attempts})
            /\ \A k \in DOMAIN r.sleeps :
                  r.sleeps[k] = r.delay_seconds * Pow(r.backoff_multiplier, k - 1)
            /\ (r.max_attempts >= 1 /\ Failures(r.calls) = r.max_attempts) =>
                  r.status # "running"

(* C15 witness: with max_attempts 3, delay 0.5 s and multiplier 2, two
   failures were followed by waits of 0.5 s and 1.0 s and the third
   invocation succeeded. *)
C15_Witness ==
    /\ retry # None
    /\ Val(retry).max_attempts = 3
    /\ Val(retry).delay_seconds = 5
    /\ Val(retry).backoff_multiplier = 2
    /\ Len(Val(retry).calls) = 3
    /\ Val(retry).sleeps = <<5, 10>>
    /\ Val(retry).status = "returned"
    /\ Val(retry).result = Some("reading")

(* C15, the other end: three failures out of three leave two waits and the
   call has ended. *)
C15_NoWaitAfterLastFailure ==
    (retry # None /\ Val(retry).max_attempts = 3
        /\ Failures(Val(retry).calls) = 3) =>
        Len(Val(retry).sleeps) = 2 /\ Val(retry).status \in {"returned", "raised"}

(***************************************************************************)
(* Claims on the separation of the equipment.                              *)
(***************************************************************************)
(* the motion state a cycle of the equipment reads and writes:
   security_monitor keeps one MotionDetector for all the equipment *)
MotionStateOf(equipment_id) == <<last_motion_time, motion_active>>
BaselineOf(equipment_id) == Lookup(baseline_readings, equipment_id)
WindowOf(equipment_id) == LookupOr(equipment_lstm_buffers, equipment_id, <<>>)

(* C16: a monitor_security call for one equipment leaves the sliding
   window, the tamper baseline, the last-motion time and the motion-active
   flag of every other equipment as they were. *)
C16_OtherEquipmentUntouched ==
    [][(last_call' # last_call /\ last_call' # None) =>
          \A e \in EquipmentIds \ {Val(last_call').equipment_id} :
              /\ WindowOf(e)' = WindowOf(e)
              /\ BaselineOf(e)' = BaselineOf(e)
              /\ MotionStateOf(e)' = MotionStateOf(e)]_vars

(* C16, the part the code keeps: windows and tamper baselines are kept per
   equipment id. *)
C16_WindowAndBaselinePerEquipment ==
    [][(last_call' # last_call /\ last_call' # None) =>
          \A e \in EquipmentIds \ {Val(last_call').equipment_id} :
              /\ WindowOf(e)' = WindowOf(e)
              /\ BaselineOf(e)' = BaselineOf(e)]_vars

(* C16, in particular: a positive motion read in a cycle of an equipment
   that has had no positive read before is a new detection. *)
C16_FirstMotionOfEquipmentIsNew ==
    (last_call # None /\ Val(last_call).motion
        /\ \A i \in DOMAIN activity_log :
              activity_log[i].equipment_id = Val(last_call).equipment_id
                  => activity_log[i].timestamp = Val(last_call).time)
    => Val(last_call).new_detection

(* C17: a monitor_security call in which a new motion detection occurs
   (idle to active on a positive read) appends a 'motion_detected' record
   for the equipment to the activity log, cooldown or not. *)
C17_NewDetectionLogged ==
    (last_call # None /\ Val(last_call).new_detection) =>
        \E i \in DOMAIN activity_log :
            /\ activity_log[i].event_type = "motion_detected"
            /\ activity_log[i].equipment_id = Val(last_call).equipment_id
            /\ activity_log[i].timestamp = Val(last_call).time

(* C17, what the code does: a call with a new detection never writes a
   'motion_detected' record. *)
C17_NewDetectionNeverLogged ==
    (last_call # None /\ Val(last_call).new_detection) =>
        \A i \in DOMAIN activity_log :
            activity_log[i].event_type = "motion_detected"
                => activity_log[i].timestamp # Val(last_call).time

(***************************************************************************)
(* Claims on the tamper rate.                                              *)
(***************************************************************************)
ThermalTamper(ret) ==
    ret.result # None /\ Val(ret.result).type = "thermal_tampering"

(* C18: for a reading without vibration tamper and a stored baseline with
   a previous temperature and time, check_tamper reports thermal tampering
   iff the elapsed time is positive and the change per minute is strictly
   over 5 C/min: 5.0 -> 20.0 C in 1 minute is tampering, in 10 minutes it
   is not, exactly 5 C/min is not; with no stored baseline for the
   equipment, or none with a temperature, no thermal tampering is
   reported. *)
C18_ThermalTamperRate ==
    (call # None /\ Val(call).op = "check_tamper") =>
        LET c == Val(call)
            vibration_tamper == "vibration" \in DOMAIN c.sensors
                                  /\ c.sensors["vibration"] >= tamper_vibration_threshold
            stored == /\ c.equipment_id \in DOMAIN c.baseline
                      /\ c.baseline[c.equipment_id].temperature # None
            prev == Val(c.baseline[c.equipment_id].temperature)
        IN  ~vibration_tamper =>
              /\ (stored /\ "temperature" \in DOMAIN c.sensors) =>
                    (ThermalTamper(c.ret) <=>
                        /\ c.elapsed > 0
                        /\ Abs(c.sensors["temperature"] - prev) * 60
                              > temperature_change_rate * c.elapsed)
              /\ ~stored => ~ThermalTamper(c.ret)
              /\ (stored /\ prev = 50 /\ c.sensors = [temperature |-> 200]) =>
                    /\ c.elapsed = 60 => ThermalTamper(c.ret)
                    /\ c.elapsed = 600 => ~ThermalTamper(c.ret)
              /\ (stored /\ prev = 50 /\ c.sensors = [temperature |-> 100]
                    /\ c.elapsed = 60) => ~ThermalTamper(c.ret)

(* C18 witness: baseline 5.0 C, reading 20.0 C one minute later: thermal
   tampering was reported. *)
C18_Witness ==
    /\ call # None
    /\ Val(call).op = "check_tamper"
    /\ Val(call).baseline = [e \in {Fridge.id} |->
                                [temperature |-> Some(50), timestamp |-> Some(StartTime)]]
    /\ Val(call).sensors = [temperature |-> 200]
    /\ Val(call).elapsed = 60
    /\ ThermalTamper(Val(call).ret)

(***************************************************************************)
(* C19: for every equipment type, a type outside the catalog included, a   *)
(* call of check_raw_sensor_thresholds on a reading whose temperature is   *)
(* at or above the global critical ceiling (75.0 C) yields exactly one     *)
(* CRITICAL raw-temperature item.                                          *)
(***************************************************************************)
RawCall == call # None /\ Val(call).op = "check_raw_sensor_thresholds"

ItemsNamed(ret, names) == {i \in DOMAIN ret : ret[i].name \in names}

C19_CriticalCeilingEveryType ==
    RawCall =>
        LET c == Val(call)
        IN  ("temperature" \in DOMAIN c.sensors /\ c.sensors["temperature"] >= 750)
                => Cardinality(ItemsNamed(c.ret, {"temperature_critical"})) = 1

(* C19 witness: a type outside the catalog reads 80.0 C and gets the item *)
C19_Witness ==
    /\ RawCall
    /\ Val(call).equipment_type = "spectrometer"
    /\ Val(call).sensors = [temperature |-> 800]
    /\ Cardinality(ItemsNamed(Val(call).ret, {"temperature_critical"})) = 1

(* C19, the ceiling itself: 75.0 C on an oven already yields the item *)
C19_WitnessAtCeiling ==
    /\ RawCall
    /\ Val(call).equipment_type = "oven"
    /\ Val(call).sensors = [temperature |-> 750]
    /\ Cardinality(ItemsNamed(Val(call).ret, {"temperature_critical"})) = 1

(***************************************************************************)
(* C20 (as stated): a temperature or CO2 violation is reported iff the     *)
(* value is strictly outside the type's range; gas, vibration and current  *)
(* iff the value is at or over the type's threshold; oxygen iff strictly   *)
(* below the minimum; a capability that is absent or whose type has no     *)
(* threshold for it is never a violation.                                  *)
(***************************************************************************)
Outside(t, key, v) == key \in DOMAIN t /\ (v < t[key][1] \/ v > t[key][2])
Reaches(t, key, v) == key \in DOMAIN t /\ v >= t[key]
Under(t, key, v) == key \in DOMAIN t /\ v < t[key]
Reads(c, k) == k \in DOMAIN c.sensors
Reported(c, names) == ItemsNamed(c.ret, names) # {}

C20_ViolationsByTypeThresholds ==
    RawCall =>
        LET c == Val(call)
            t == c.thresholds
            s == c.sensors
        IN  /\ Reported(c, {"temperature_range", "temperature_critical"})
                <=> (Reads(c, "temperature") /\ Outside(t, "temperature_range", s["temperature"]))
            /\ Reported(c, {"co2"})
                <=> (Reads(c, "co2") /\ Outside(t, "co2_range", s["co2"]))
            /\ Reported(c, {"gas"})
                <=> (Reads(c, "gas") /\ Reaches(t, "gas_analog_threshold", s["gas"]))
            /\ Reported(c, {"vibration"})
                <=> (Reads(c, "vibration") /\ Reaches(t, "vibration_threshold", s["vibration"]))
            /\ Reported(c, {"current"})
                <=> (Reads(c, "current") /\ Reaches(t, "current_threshold", s["current"]))
            /\ Reported(c, {"oxygen"})
                <=> (Reads(c, "oxygen") /\ Under(t, "oxygen_min", s["oxygen"]))

(***************************************************************************)
(* C20 (amended): as above, except that the temperature is also a          *)
(* violation when it is at or above the global critical ceiling, whatever  *)
(* the type's range and even without one, and that gas is measured against *)
(* the global GAS_ANALOG_THRESHOLD (600) when the type has no gas          *)
(* threshold.  Each violation is one item, so a reading within all of      *)
(* these bounds gives no alert.                                            *)
(***************************************************************************)
C20_ViolationsByBoundsAndCeiling ==
    RawCall =>
        LET c == Val(call)
            t == c.thresholds
            s == c.sensors
            violated ==
                [temperature_range |->
                    Reads(c, "temperature") /\ Outside(t, "temperature_range", s["temperature"]),
                 temperature_critical |->
                    Reads(c, "temperature") /\ s["temperature"] >= 750,
                 gas |->
                    Reads(c, "gas")
                    /\ IF "gas_analog_threshold" \in DOMAIN t
                       THEN s["gas"] >= t["gas_analog_threshold"]
                       ELSE s["gas"] >= 600,
                 co2 |-> Reads(c, "co2") /\ Outside(t, "co2_range", s["co2"]),
                 oxygen |-> Reads(c, "oxygen") /\ Under(t, "oxygen_min", s["oxygen"]),
                 vibration |->
                    Reads(c, "vibration") /\ Reaches(t, "vibration_threshold", s["vibration"]),
                 current |->
                    Reads(c, "current") /\ Reaches(t, "current_threshold", s["current"])]
        IN  /\ \A n \in DOMAIN violated :
                Cardinality(ItemsNamed(c.ret, {n})) = IF violated[n] THEN 1 ELSE 0
            /\ Len(c.ret) = Cardinality({n \in DOMAIN violated : violated[n]})

(* C20 witness: an incubator reading with the temperature and the oxygen in
   bounds and the CO2 above its range yields the CO2 item alone *)
C20_Witness ==
    /\ RawCall
    /\ Val(call).equipment_type = "incubator"
    /\ "oxygen_min" \in DOMAIN Val(call).thresholds
    /\ Val(call).sensors = [temperature |-> 370, co2 |-> 70, oxygen |-> 210]
    /\ Len(Val(call).ret) = 1
    /\ Val(call).ret[1].name = "co2"

(* C20, the bounds themselves: a fridge at exactly 8.0 C gives no alert *)
C20_WitnessOnBound ==
    /\ RawCall
    /\ Val(call).equipment_type = "fridge"
    /\ Val(call).sensors = [temperature |-> 80]
    /\ Val(call).ret = <<>>

(* C20, a reading within every bound gives no alert *)
C20_WitnessNormal ==
    /\ RawCall
    /\ Val(call).equipment_type = "centrifuge"
    /\ Val(call).sensors = [vibration |-> 2, current |-> 20]
    /\ Val(call).ret = <<>>

(***************************************************************************)
(* C21: read_equipment_sensors calls the driver of each enabled capability *)
(* exactly once and the driver of no other capability; the returned map    *)
(* has a capability's key iff the capability is enabled and its read       *)
(* succeeded; a read that raises is not propagated and the capabilities    *)
(* after it are still read.                                                *)
(***************************************************************************)
ReadCall == call # None /\ Val(call).op = "read_equipment_sensors"

TimesRead(reads, key) == Cardinality({i \in DOMAIN reads : reads[i] = key})

C21_EachEnabledSensorReadOnce ==
    ReadCall =>
        LET c == Val(call)
            enabled == {k \in DOMAIN c.config : c.config[k]}
        IN  /\ \A k \in WiringKeys :
                TimesRead(c.ret.reads, k) = IF k \in enabled THEN 1 ELSE 0
            /\ DOMAIN c.ret.sensors
                    = {ReadingKey[k] : k \in {e \in enabled : c.hw[e] # None}}
            /\ ~c.ret.raised
            /\ Len(c.ret.logged) = Cardinality({e \in enabled : c.hw[e] = None})

(* C21 witness: the thermal camera is enabled and raises, the gas sensor,
   read after it, is enabled and answers, the microphone is disabled *)
C21_Witness ==
    /\ ReadCall
    /\ Val(call).config
            = [thermal_camera |-> TRUE, microphone |-> FALSE, gas_sensor |-> TRUE]
    /\ Val(call).hw["thermal_camera"] = None
    /\ Val(call).hw["gas_sensor"] # None
    /\ Val(call).ret.reads = <<"thermal_camera", "gas_sensor">>
    /\ DOMAIN Val(call).ret.sensors = {"gas"}

(***************************************************************************)
(* C22: when the inference of one model returns an error in a cycle, only  *)
(* that result is skipped: every other result of the cycle is compared     *)
(* with its threshold and gives its anomaly when it exceeds it, and the    *)
(* error gives no anomaly.                                                 *)
(***************************************************************************)
IsError(result) == "error" \in DOMAIN result

TypeOfModel == [thermal_cnn |-> "thermal", acoustic_cnn |-> "acoustic",
                lstm_ae |-> "lstm_degradation"]

ThresholdKeyOfModel ==
    [thermal_cnn |-> "thermal_anomaly_confidence",
     acoustic_cnn |-> "acoustic_anomaly_confidence",
     lstm_ae |-> "lstm_reconstruction_threshold"]

ScoreOf(result) ==
    IF result.model = "lstm_ae" THEN result.reconstruction_error
    ELSE result.anomaly_confidence

Exceeds(c, i) ==
    /\ ~IsError(c.inference_results[i])
    /\ ScoreOf(c.inference_results[i])
            > EQUIPMENT_THRESHOLDS[c.equipment_type]
                    [ThresholdKeyOfModel[c.inference_results[i].model]]

C22_ErrorSkipsOnlyItsResult ==
    (cycle # None /\ ~Val(cycle).raised) =>
        LET c == Val(cycle)
            over == {i \in DOMAIN c.inference_results : Exceeds(c, i)}
        IN  /\ Len(c.anomalies) = Cardinality(over)
            /\ \A i \in over :
                  \E j \in DOMAIN c.anomalies :
                      /\ c.anomalies[j].type = TypeOfModel[c.inference_results[i].model]
                      /\ c.anomalies[j].value = ScoreOf(c.inference_results[i])

(* C22 witness: the thermal inference of a fridge cycle returned an error
   and the acoustic one 0.90; the acoustic anomaly alone was found and sent *)
C22_Witness ==
    /\ cycle # None
    /\ ~Val(cycle).raised
    /\ Val(cycle).equipment_type = "fridge"
    /\ Len(Val(cycle).inference_results) = 2
    /\ IsError(Val(cycle).inference_results[1])
    /\ Val(cycle).inference_results[2] = AcousticResult(90)
    /\ Len(Val(cycle).anomalies) = 1
    /\ Val(cycle).anomalies[1].type = "acoustic"
    /\ \E i \in DOMAIN Val(cycle).sends :
          Val(cycle).sends[i].message.kind = "ANOMALY DETECTED"

(***************************************************************************)
(* C23: within one equipment's cycle the stages run in the fixed order     *)
(* read, security, raw-threshold, inference, buffer-update, fusion, alert,  *)
(* snapshot, each starting after the previous one has finished, and the    *)
(* snapshot of the equipment is written last.                              *)
(***************************************************************************)
StageRank(stage) ==
    CASE stage = "read" -> 1
      [] stage = "security" -> 2
      [] stage = "raw-threshold" -> 3
      [] stage = "inference" -> 4
      [] stage = "buffer-update" -> 5
      [] stage = "fusion" -> 6
      [] stage = "alert" -> 7
      [] stage = "snapshot" -> 8

C23_StagesInFixedOrder ==
    (cycle # None /\ ~Val(cycle).raised) =>
        LET st == Val(cycle).stages
        IN  /\ \A i, j \in DOMAIN st :
                i < j => StageRank(st[i].stage) <= StageRank(st[j].stage)
            /\ st[Len(st)].stage = "snapshot"

(* C23, what does hold: the snapshot is written last and once, and every
   stage but the LSTM inference is in the order of the claim *)
C23_OrderButForLstm ==
    (cycle # None /\ ~Val(cycle).raised) =>
        LET st == Val(cycle).stages
            rest == SelectSeq(st, LAMBDA e : e.call # "run_lstm_inference")
        IN  /\ \A i, j \in DOMAIN rest :
                i < j => StageRank(rest[i].stage) <= StageRank(rest[j].stage)
            /\ st[Len(st)].stage = "snapshot"
            /\ Cardinality({i \in DOMAIN st : st[i].stage = "snapshot"}) = 1

(* C23: whenever the LSTM inference runs, it runs after the buffer update *)
C23_LstmInferenceAfterBufferUpdate ==
    (cycle # None /\ ~Val(cycle).raised) =>
        LET st == Val(cycle).stages
        IN  \A i \in DOMAIN st :
                st[i].call = "run_lstm_inference"
                    => \E j \in 1..(i - 1) : st[j].stage = "buffer-update"

(***************************************************************************)
(* C24: after the equipment of a cycle are processed the orchestrator      *)
(* sleeps exactly max(0, target_interval - elapsed): never a negative      *)
(* time, so that the next cycle starts target_interval after this one      *)
(* when the cycle took no longer than the interval, and at once when it    *)
(* overran.  In premonitor_main_hardened.py:                               *)
(***************************************************************************)
C24_HardenedSleepHoldsCadence ==
    hardened # None =>
        LET h == Val(hardened)
        IN  /\ h.slept = (IF h.elapsed <= 30 THEN 30 - h.elapsed ELSE 0)
            /\ (h.elapsed <= 30 => now - h.started = 30)
            /\ (h.elapsed > 30 => now - h.started = h.elapsed)

(* C24 in premonitor_main_multi_equipment.py: the sleep step takes exactly
   max(0, 30 - elapsed) seconds, and the next cycle starts when it ends *)
C24_LoopSleepHoldsCadence ==
    [][/\ (pc = "sleep" /\ pc' = "top") =>
            LET elapsed == now - loop_start
            IN  /\ now' - now = (IF elapsed <= 30 THEN 30 - elapsed ELSE 0)
                /\ now' - now >= 0
                /\ (elapsed <= 30 => now' - loop_start = 30)
                /\ (elapsed > 30 => now' = now)
       /\ (pc = "top" /\ pc' = "equipment") => loop_start' = now]_vars

(* C24 in premonitor_main_multi_equipment.py, as a state predicate: while
   the loop is at its top after a cycle, the time since that cycle started
   is the interval, or what the cycle took when it overran *)
C24_LoopCadence ==
    (pc = "top" /\ iteration_count >= 1) => now - loop_start >= 30

(***************************************************************************)
(* C25: the activity log only grows.  Every log_activity call leaves the   *)
(* records already in the log unchanged and in their order and appends at  *)
(* most one record, which carries timestamp, event_type, equipment_id,     *)
(* details and the after_hours flag; no operation removes or rewrites a    *)
(* record.                                                                 *)
(***************************************************************************)
LogKeptAsPrefix ==
    /\ Len(activity_log') >= Len(activity_log)
    /\ SubSeq(activity_log', 1, Len(activity_log)) = activity_log

C25_LogAppendOnly ==
    [][/\ LogKeptAsPrefix
       /\ Len(activity_log') <= Len(activity_log) + 1
       /\ Len(activity_log') = Len(activity_log) + 1 =>
            LET entry == activity_log'[Len(activity_log')]
            IN  /\ DOMAIN entry = {"timestamp", "event_type", "equipment_id",
                                   "details", "after_hours"}
                /\ call' # None /\ Val(call').op = "log_activity"
                /\ entry.timestamp = now
                /\ entry.event_type = Val(call').event_type
                /\ entry.equipment_id = Val(call').equipment_id
                /\ entry.details = Val(call').details
                /\ entry.after_hours = (now % 86400 > 18 * 3600)]_vars

(* C25 witness: two records are in the log, the first written in business
   hours and the second after hours, after a call whose write failed left
   the log as it was *)
C25_Witness ==
    /\ Len(activity_log) = 2
    /\ ~activity_log[1].after_hours
    /\ activity_log[2].after_hours
    /\ call # None /\ Val(call).op = "log_activity" /\ ~Val(call).written

(* C25 in the monitoring loop: a step of the security monitor, which may
   call log_activity several times, keeps the log as a prefix *)
C25_MonitorKeepsLog == [][LogKeptAsPrefix]_vars

(***************************************************************************)
(* C26: two monitor_security calls with the same configuration, the same   *)
(* PIR level and reading and the same stored state, one in business hours  *)
(* and one after hours, execute the same motion and tamper checks and      *)
(* produce the same alerts and log records by type and equipment; only     *)
(* the after-hours annotations differ.                                     *)
(***************************************************************************)
SecurityCallPair == call # None /\ Val(call).op = "monitor_security"

Kinds(records, field) ==
    [i \in DOMAIN records |-> <<records[i][field], records[i].equipment_id>>]

C26_AfterHoursChangesAnnotationsOnly ==
    SecurityCallPair =>
        LET c == Val(call)
            b == c.business
            a == c.after
        IN  /\ Val(a.last_call).new_detection = Val(b.last_call).new_detection
            /\ Val(a.last_call).motion_alert = Val(b.last_call).motion_alert
            /\ Val(a.last_call).tamper = Val(b.last_call).tamper
            /\ a.motion_active = b.motion_active
            /\ a.last_motion_time
                    = (IF b.last_motion_time = None THEN None
                       ELSE Some(Val(b.last_motion_time) + c.shift))
            /\ DOMAIN a.baseline_readings = DOMAIN b.baseline_readings
            /\ \A e \in DOMAIN b.baseline_readings :
                    a.baseline_readings[e].temperature = b.baseline_readings[e].temperature
            /\ Kinds(a.intrusion_alerts, "alert_type") = Kinds(b.intrusion_alerts, "alert_type")
            /\ Kinds(a.activity_log, "event_type") = Kinds(b.activity_log, "event_type")
            /\ \A i \in DOMAIN b.activity_log :
                    ~b.activity_log[i].after_hours /\ a.activity_log[i].after_hours
            /\ \A i \in DOMAIN b.intrusion_alerts :
                    ~b.intrusion_alerts[i].after_hours /\ a.intrusion_alerts[i].after_hours

(* C26 witness: motion that lasts beyond the cooldown alerts in both calls,
   with the after-hours flag set in the second only *)
C26_Witness ==
    /\ SecurityCallPair
    /\ Val(call).motion
    /\ Val(Val(call).business.last_call).motion_alert
    /\ Val(Val(call).after.last_call).motion_alert
    /\ Len(Val(call).business.intrusion_alerts) = 1
    /\ ~Val(call).business.intrusion_alerts[1].after_hours
    /\ Val(call).after.intrusion_alerts[1].after_hours

(***************************************************************************)
(* C27: is_after_hours returns true at every time of day on Saturday and   *)
(* Sunday when weekdays_only is set, and otherwise true iff the time of    *)
(* day lies outside the business-hours window, whose two bounds count as   *)
(* business hours; the result depends on the time of day, the weekday and  *)
(* the configuration alone.  Day 0 is a Monday.                            *)
(***************************************************************************)
HoursCall == call # None /\ Val(call).op = "is_after_hours"

C27_AfterHoursByClockAndWeekday ==
    HoursCall =>
        LET c == Val(call)
            weekend == (c.day % 7) \in {5, 6}
        IN  IF c.config.weekdays_only /\ weekend
            THEN c.ret = TRUE
            ELSE c.ret <=> (c.time_of_day < c.config.start
                            \/ c.time_of_day > c.config.end)

(* C27 witness: 18:00:00 on a Monday is business hours under the shipped
   configuration *)
C27_Witness ==
    /\ HoursCall
    /\ Val(call).config = [start |-> 8 * 3600, end |-> 18 * 3600, weekdays_only |-> TRUE]
    /\ Val(call).day = 0
    /\ Val(call).time_of_day = 18 * 3600
    /\ Val(call).ret = FALSE

(* C27 witness for the weekend: Saturday at noon is after hours *)
C27_WitnessWeekend ==
    /\ HoursCall
    /\ Val(call).config.weekdays_only
    /\ Val(call).day = 5
    /\ Val(call).time_of_day = 12 * 3600
    /\ Val(call).ret = TRUE

(***************************************************************************)
(* C28: build_lstm_feature_vector returns a vector of length 6 in the      *)
(* fixed order [temperature, gas, vibration, current, acoustic_rms,        *)
(* thermal_mean], with the missing sentinel at the position of every       *)
(* absent capability; two maps with the same key-value pairs give the same *)
(* vector whatever the insertion order of their keys.  The audio frame     *)
(* <<3, 4>> has root mean square 3 (rounded down), the thermal frame       *)
(* <<20, 24>> has mean 22.                                                 *)
(***************************************************************************)
FeatureCall == call # None /\ Val(call).op = "build_lstm_feature_vector"

FeatureOrder == <<"temperature", "gas", "vibration", "current", "audio", "thermal">>

FeatureExpected ==
    [temperature |-> 50, gas |-> 300, vibration |-> 2, current |-> 25,
     audio |-> 3, thermal |-> 22]

C28_FeatureVectorFixedOrder ==
    FeatureCall =>
        LET c == Val(call)
            present == {c.items[i][1] : i \in DOMAIN c.items}
        IN  /\ Len(c.ret) = 6
            /\ \A p \in 1..6 :
                    c.ret[p] = IF FeatureOrder[p] \in present
                               THEN <<FeatureExpected[FeatureOrder[p]]>>
                               ELSE <<>>
            /\ c.ret_reversed = c.ret

(* C28 witness: current, gas, temperature and vibration read in that order
   (the order of the test) give [5.0, 300, 0.2, 2.5, NaN, NaN] *)
C28_Witness ==
    /\ FeatureCall
    /\ Val(call).items = << <<"current", 25>>, <<"gas", 300>>,
                            <<"temperature", 50>>, <<"vibration", 2>> >>
    /\ Val(call).ret = << <<50>>, <<300>>, <<2>>, <<25>>, <<>>, <<>> >>

(***************************************************************************)
(* C29: validate_equipment_config returns (True, ...) iff the type of the  *)
(* instance is in the catalog and, for every required capability of the   *)
(* type, the wiring key of the capability (thermal_camera for thermal,     *)
(* microphone for acoustic, gas_sensor for gas, else the name itself) is   *)
(* in the instance's sensors with enabled set; in every other case, an     *)
(* unknown type included, it returns (False, reason).                      *)
(***************************************************************************)
ValidateCall == call # None /\ Val(call).op = "validate_equipment_config"

WiringKeyOf(capability) ==
    CASE capability = "thermal" -> "thermal_camera"
      [] capability = "acoustic" -> "microphone"
      [] capability = "gas" -> "gas_sensor"
      [] OTHER -> capability

Wired(sensors, key) ==
    /\ key \in DOMAIN sensors
    /\ "enabled" \in DOMAIN sensors[key]
    /\ sensors[key].enabled

C29_ValidIffRequiredWired ==
    ValidateCall =>
        LET c == Val(call)
            known == c.type \in DOMAIN EQUIPMENT_TYPES
            required == IF known
                        THEN {EQUIPMENT_TYPES[c.type].sensors_required[i] :
                                i \in DOMAIN EQUIPMENT_TYPES[c.type].sensors_required}
                        ELSE {}
        IN  /\ c.ret.valid <=> (known /\ \A r \in required : Wired(c.sensors, WiringKeyOf(r)))
            /\ ~c.ret.valid => c.ret.message \in {"Unknown equipment type",
                                                  "Required sensor missing"}
            /\ (known /\ ~c.ret.valid) =>
                    (c.ret.sensor # None /\ ~Wired(c.sensors, WiringKeyOf(Val(c.ret.sensor))))

(* C29 witness: a fridge whose thermal camera is enabled and whose
   microphone entry is there but not enabled is refused for the acoustic
   capability *)
C29_Witness ==
    /\ ValidateCall
    /\ Val(call).type = "fridge"
    /\ Val(call).sensors = [thermal_camera |-> [enabled |-> TRUE],
                            microphone |-> [enabled |-> FALSE]]
    /\ ~Val(call).ret.valid
    /\ Val(call).ret.sensor = Some("acoustic")

(* C29 witness for the accepted case *)
C29_WitnessValid ==
    /\ ValidateCall
    /\ Val(call).type = "freezer_ultra_low"
    /\ Val(call).ret.valid

(* C29 witness for the unknown type *)
C29_WitnessUnknownType ==
    /\ ValidateCall
    /\ Val(call).type = "spectrometer"
    /\ Val(call).ret = [valid |-> FALSE, message |-> "Unknown equipment type",
                        sensor |-> None]

(***************************************************************************)
(* C30: within one equipment's cycle an exception raised by the security   *)
(* pass does not end the cycle: the raw-threshold check, the inference,    *)
(* the buffer update and the fusion of the same cycle are still performed; *)
(* and an exception raised by the raw-threshold check does not prevent the *)
(* inference, the buffer update and the fusion of that cycle.              *)
(***************************************************************************)
EquipmentOf(id) ==
    equipment_list[CHOOSE i \in DOMAIN equipment_list : equipment_list[i].id = id]

StagesOf(c) == {c.stages[i].stage : i \in DOMAIN c.stages}

InferenceRun(c) ==
    Len(c.inference_results)
        = Cardinality({k \in {"thermal", "audio"} : k \in DOMAIN c.sensors})

BufferUpdated(c) ==
    /\ c.equipment_id \in DOMAIN equipment_lstm_buffers
    /\ equipment_lstm_buffers[c.equipment_id]
            = Append(c.window_before, build_lstm_feature_vector(c.sensors))

Fused(c) ==
    Len(c.anomalies) = Cardinality({i \in DOMAIN c.inference_results : Exceeds(c, i)})

C30_SecurityAndRawFaultsDoNotEndCycle ==
    (cycle # None /\ Val(cycle).fault \in {"security", "raw"}) =>
        LET c == Val(cycle)
        IN  /\ ~c.raised
            /\ c.fault = "security" =>
                    /\ "raw-threshold" \in StagesOf(c)
                    /\ c.raw_alerts
                          = check_raw_sensor_thresholds(EquipmentOf(c.equipment_id),
                                                        c.sensors).alerts
            /\ {"inference", "buffer-update", "fusion"} \subseteq StagesOf(c)
            /\ InferenceRun(c)
            /\ BufferUpdated(c)
            /\ Fused(c)

(* C30 witness: monitor_security raised in a fridge cycle with a gas
   reading over its threshold and loud models; the raw alert and both
   anomalies were still found and the feature vector was buffered *)
C30_Witness ==
    /\ cycle # None
    /\ Val(cycle).fault = "security"
    /\ Val(cycle).equipment_type = "fridge"
    /\ Val(cycle).caught = <<"Error in security monitoring">>
    /\ ~Val(cycle).raised
    /\ Val(cycle).raw_alerts # <<>>
    /\ Len(Val(cycle).inference_results) = 2
    /\ Len(Val(cycle).anomalies) = 2
    /\ Len(equipment_lstm_buffers[Val(cycle).equipment_id])
            = Len(Val(cycle).window_before) + 1

(* C30 witness for the raw-threshold check: it raised in a centrifuge
   cycle, and the acoustic anomaly of the cycle was still found *)
C30_WitnessRaw ==
    /\ cycle # None
    /\ Val(cycle).fault = "raw"
    /\ Val(cycle).equipment_type = "centrifuge"
    /\ Val(cycle).caught = <<"Error in raw sensor threshold checks">>
    /\ ~Val(cycle).raised
    /\ Len(Val(cycle).anomalies) = 1
    /\ Val(cycle).anomalies[1].type = "acoustic"

=============================================================================
